---- MODULE Spec2Model ----
(***************************************************************************)
(* Model of the PDF form pipeline of formease-sea: the field value         *)
(* sanitizer, the form filler (API route, fillPdfForm tool, pdf-lib        *)
(* helper), the two response parsers (cleanAIResponse, extractJsonObject)  *)
(* followed by JSON decoding, the schema extractor with its validation,    *)
(* the three request handlers that run the stages in sequence, and two     *)
(* fill requests in flight against one clock and one blob storage.         *)
(*                                                                         *)
(* A JavaScript string is a sequence of one-character strings, so that     *)
(* trim, substring, toLowerCase, startsWith and the regular expressions    *)
(* are computed character by character.  A JSON value is a record          *)
(* [t |-> tag, v |-> payload].                                             *)
(***************************************************************************)
EXTENDS Integers, Sequences, FiniteSets, TLC

VARIABLES
    fields,      \* PDFField[] handed to sanitizeFieldValues
    rawValues,   \* the value JSON.parse returned (fieldValues)
    sanitized,   \* outcome of sanitizeFieldValues(rawValues, fields)
    resanitized, \* outcome of sanitizeFieldValues on the previous output
    impl,        \* which copy of the filler runs: "route", "tool" or "lib"
    pdf,         \* the input document of the filler
    fillValues,  \* the value map handed to the filler, in Object.entries order
    filled,      \* outcome of the filler
    modelText,   \* the raw text the language model returned
    sourceJson,  \* the JSON object the model meant to send
    shape,       \* how the model wrapped the object
    specParsed,  \* outcome of extractJsonObject followed by JSON.parse
    fillParsed,  \* outcome of cleanAIResponse followed by JSON.parse
    candidate,   \* a value handed to validatePDFFields
    verdict,     \* outcome of validatePDFFields(candidate)
    schema,      \* outcome of extractPDFFields on the input document
    schemaValid, \* outcome of validatePDFFields on the extracted schema
    schemaAfter, \* outcome of extractPDFFields on the filled document
    handler,     \* the request handler that runs: "route", "tool" or "spec"
    request,     \* what the caller sent: session, pdfUrl, userInfo
    pc,          \* the stage the handler is about to run
    calls,       \* the calls made to collaborators so far, in order
    pdfBuffer,   \* outcome of downloadPDFFromUrl
    pdfText,     \* outcome of extractPDFText
    pdfFields,   \* outcome of extractPDFFields
    prompt,      \* the prompt built for the model
    aiResponse,  \* outcome of generateText
    parsedResponse, \* outcome of decoding the model's text
    sanitizedValues, \* outcome of sanitizeFieldValues in the handler
    filledPdfBuffer, \* outcome of fillPDFFields in the handler
    response,    \* what the handler returned to its caller
    invocations, \* the fill requests in flight, each with its own locals
    clock,       \* the time new Date() reads, in milliseconds
    blobStore    \* the uploads the storage has accepted, in order

vars == <<fields, rawValues, sanitized, resanitized, impl, pdf,
          fillValues, filled, modelText, sourceJson, shape, specParsed,
          fillParsed, candidate, verdict, schema, schemaValid, schemaAfter,
          handler, request, pc, calls, pdfBuffer, pdfText, pdfFields, prompt,
          aiResponse, parsedResponse, sanitizedValues, filledPdfBuffer,
          response, invocations, clock, blobStore>>

----------------------------------------------------------------------------
(* Bounds of the model *)

\* longest model response the sanitizer is explored on (see Cost)
MaxResponseSize == 4

\* largest maxLength a generated descriptor declares
MaxMaxLength == 2

\* most entries of a value map handed to the filler
MaxFillEntries == 2

----------------------------------------------------------------------------
(* JavaScript strings *)

Min(a, b) == IF a < b THEN a ELSE b

\* white space removed by String.prototype.trim, within the alphabet used
WhiteSpace == {" ", "\n"}

RECURSIVE trimStart(_)
trimStart(s) ==
    IF s = <<>> THEN s
    ELSE IF Head(s) \in WhiteSpace THEN trimStart(Tail(s)) ELSE s

RECURSIVE trimEnd(_)
trimEnd(s) ==
    IF s = <<>> THEN s
    ELSE IF s[Len(s)] \in WhiteSpace THEN trimEnd(SubSeq(s, 1, Len(s) - 1))
    ELSE s

\* String.prototype.trim
trim(s) == trimEnd(trimStart(s))

\* String.prototype.substring(from, to), 0-based, to exclusive, clamped
substring(s, from, to) == SubSeq(s, Min(from, Len(s)) + 1, Min(to, Len(s)))

\* String.prototype.startsWith
startsWith(s, p) == Len(s) >= Len(p) /\ SubSeq(s, 1, Len(p)) = p

\* String.prototype.endsWith
endsWith(s, p) ==
    Len(s) >= Len(p) /\ SubSeq(s, Len(s) - Len(p) + 1, Len(s)) = p

UpperCase ==
    <<"A", "B", "C", "D", "E", "F", "G", "H", "I", "J", "K", "L", "M",
      "N", "O", "P", "Q", "R", "S", "T", "U", "V", "W", "X", "Y", "Z">>

LowerCase ==
    <<"a", "b", "c", "d", "e", "f", "g", "h", "i", "j", "k", "l", "m",
      "n", "o", "p", "q", "r", "s", "t", "u", "v", "w", "x", "y", "z">>

lowerChar(c) ==
    IF \E i \in 1..Len(UpperCase) : UpperCase[i] = c
    THEN LowerCase[CHOOSE i \in 1..Len(UpperCase) : UpperCase[i] = c]
    ELSE c

upperChar(c) ==
    IF \E i \in 1..Len(LowerCase) : LowerCase[i] = c
    THEN UpperCase[CHOOSE i \in 1..Len(LowerCase) : LowerCase[i] = c]
    ELSE c

\* String.prototype.toLowerCase
toLowerCase(s) == [i \in 1..Len(s) |-> lowerChar(s[i])]

Digit == <<"0", "1", "2", "3", "4", "5", "6", "7", "8", "9">>

\* Number.prototype.toString of a non-negative integer
RECURSIVE numberToString(_)
numberToString(n) ==
    IF n < 10 THEN <<Digit[n + 1]>>
    ELSE numberToString(n \div 10) \o <<Digit[(n % 10) + 1]>>

----------------------------------------------------------------------------
(* JSON values, as JSON.parse returns them *)

JStr(s) == [t |-> "string", v |-> s]

JBool(b) == [t |-> "boolean", v |-> b]

JNum(n) == [t |-> "number", v |-> n]

JNull == [t |-> "null", v |-> "null"]

JArr(elems) == [t |-> "array", v |-> elems]

\* an object is the sequence of its <<key, value>> entries, keys distinct
JObj(entries) == [t |-> "object", v |-> entries]

\* outcome of a call: returned `val`, or threw
Returned(x) == [st |-> "ok", val |-> x]

Threw(msg) == [st |-> "throw", val |-> msg]

NotRun == [st |-> "none", val |-> "none"]

KeysOf(entries) == {entries[i][1] : i \in 1..Len(entries)}

HasKey(entries, k) == \E i \in 1..Len(entries) : entries[i][1] = k

ValueAt(entries, k) ==
    entries[CHOOSE i \in 1..Len(entries) : entries[i][1] = k][2]

\* obj[k] = v on an insertion-ordered object
SetKey(entries, k, v) ==
    IF HasKey(entries, k)
    THEN [i \in 1..Len(entries) |->
            IF entries[i][1] = k THEN <<k, v>> ELSE entries[i]]
    ELSE Append(entries, <<k, v>>)

kToString == <<"t", "o", "S", "t", "r", "i", "n", "g">>

ObjectObject ==
    <<"[", "o", "b", "j", "e", "c", "t", " ", "O", "b", "j", "e", "c", "t", "]">>

\* JavaScript truthiness of a JSON value
Truthy(x) ==
    CASE x.t = "string" -> x.v # <<>>
      [] x.t = "number" -> x.v # 0
      [] x.t = "boolean" -> x.v
      [] x.t = "null" -> FALSE
      [] x.t = "undefined" -> FALSE
      [] OTHER -> TRUE

\* value.toString(): an array joins its elements with "," (null gives ""),
\* an object gives "[object Object]" unless it has an own "toString" entry,
\* which JSON.parse can only make a non-function: the call throws.
RECURSIVE jsToString(_)
RECURSIVE joinElements(_, _)
joinElements(elems, i) ==
    IF i > Len(elems) THEN Returned(<<>>)
    ELSE LET head == IF elems[i].t = "null" THEN Returned(<<>>)
                     ELSE jsToString(elems[i])
             rest == joinElements(elems, i + 1)
         IN  IF head.st = "throw" THEN head
             ELSE IF rest.st = "throw" THEN rest
             ELSE Returned(head.val
                           \o (IF i < Len(elems) THEN <<",">> ELSE <<>>)
                           \o rest.val)

jsToString(x) ==
    CASE x.t = "string" -> Returned(x.v)
      [] x.t = "number" -> Returned(numberToString(x.v))
      [] x.t = "boolean" ->
           Returned(IF x.v THEN <<"t", "r", "u", "e">>
                    ELSE <<"f", "a", "l", "s", "e">>)
      [] x.t = "array" -> joinElements(x.v, 1)
      [] x.t = "object" ->
           IF HasKey(x.v, kToString)
           THEN Threw("TypeError: value.toString is not a function")
           ELSE Returned(ObjectObject)
      [] OTHER -> Threw("TypeError: Cannot read properties of null")

\* Object.entries(x): own enumerable string-keyed properties
objectEntries(x) ==
    CASE x.t = "object" -> Returned(x.v)
      [] x.t = "array" ->
           Returned([i \in 1..Len(x.v) |-> <<numberToString(i - 1), x.v[i]>>])
      [] x.t = "string" ->
           Returned([i \in 1..Len(x.v) |->
                        <<numberToString(i - 1), JStr(<<x.v[i]>>)>>])
      [] x.t = "null" ->
           Threw("TypeError: Cannot convert undefined or null to object")
      [] OTHER -> Returned(<<>>)

----------------------------------------------------------------------------
(* Field names and words used by the inputs *)

kFullName == <<"f", "u", "l", "l", "_", "n", "a", "m", "e">>

kIsLlc == <<"i", "s", "_", "l", "l", "c">>

kGhostField == <<"g", "h", "o", "s", "t", "_", "f", "i", "e", "l", "d">>

kYes == <<"y", "e", "s">>

----------------------------------------------------------------------------
(* Field descriptors and sanitizeFieldValues *)

\* PDFField; maxLength 0 stands for an absent maxLength (the code reads it
\* with `getMaxLength() || undefined` and tests it with `field.maxLength &&`)
PDFField(name, type, maxLength) ==
    [name |-> name, label |-> name, type |-> type, maxLength |-> maxLength]

NoField == [name |-> <<>>, type |-> "undefined", maxLength |-> 0]

\* find with a defect: any descriptor stands in for a missing one
findFirstOrAny(fieldList, fieldName) ==
    IF fieldList = <<>> THEN NoField
    ELSE IF \E i \in 1..Len(fieldList) : fieldList[i].name = fieldName
    THEN fieldList[CHOOSE i \in 1..Len(fieldList) :
                      /\ fieldList[i].name = fieldName
                      /\ \A j \in 1..(i - 1) : fieldList[j].name # fieldName]
    ELSE fieldList[1]

\* fields.find(f => f.name === fieldName)
find(fieldList, fieldName) ==
    IF \E i \in 1..Len(fieldList) : fieldList[i].name = fieldName
    THEN fieldList[CHOOSE i \in 1..Len(fieldList) :
                      /\ fieldList[i].name = fieldName
                      /\ \A j \in 1..(i - 1) : fieldList[j].name # fieldName]
    ELSE NoField

\* respectMaxLength with a defect: the cut is one character late
respectMaxLengthOffByOne(sanitizedValue, field) ==
    IF field.maxLength # 0 /\ Len(sanitizedValue) > field.maxLength
    THEN substring(sanitizedValue, 0, field.maxLength + 1)
    ELSE sanitizedValue

\* the "Respect max length if specified" step
respectMaxLength(sanitizedValue, field) ==
    IF field.maxLength # 0 /\ Len(sanitizedValue) > field.maxLength
    THEN substring(sanitizedValue, 0, field.maxLength)
    ELSE sanitizedValue

\* the loop of sanitizeFieldValues from entry i on; acc is `sanitized`
RECURSIVE sanitizeLoop(_, _, _, _)
sanitizeLoop(entries, fieldList, i, acc) ==
    IF i > Len(entries) THEN Returned(acc)
    ELSE LET fieldName == entries[i][1]
             value == entries[i][2]
             field == find(fieldList, fieldName)
         IN  IF field # NoField /\ Truthy(value)
             THEN LET str == jsToString(value)
                  IN  IF str.st = "throw" THEN str
                      ELSE sanitizeLoop(entries, fieldList, i + 1,
                             SetKey(acc, fieldName,
                                    respectMaxLength(trim(str.val), field)))
             ELSE sanitizeLoop(entries, fieldList, i + 1, acc)

\* sanitizeFieldValues(fieldValues, fields): the returned map, or the throw
sanitizeFieldValues(fieldValues, fieldList) ==
    LET entries == objectEntries(fieldValues)
    IN  IF entries.st = "throw" THEN entries
        ELSE sanitizeLoop(entries.val, fieldList, 1, <<>>)

\* a Record<string, string> seen again as the object it is
asObject(map) == JObj([i \in 1..Len(map) |-> <<map[i][1], JStr(map[i][2])>>])

----------------------------------------------------------------------------
(* The PDF document and the form filler *)

\* a field of the AcroForm as pdf-lib shows it.  kind: "text" PDFTextField,
\* "checkbox" PDFCheckBox, "radio" PDFRadioGroup, "dropdown" PDFDropdown,
\* "other" any other PDFField (button, signature, option list).  selected is
\* the list of selected options.  faulty: an operation on the widget throws.
Widget(name, kind, maxLength, checked, options, selected, faulty) ==
    [name |-> name, kind |-> kind, text |-> <<>>, maxLength |-> maxLength,
     checked |-> checked, options |-> options, selected |-> selected,
     faulty |-> faulty]

\* the document: loads is whether PDFDocument.load accepts the bytes, saves
\* whether pdfDoc.save succeeds
Document(loads, saves, widgets) ==
    [loads |-> loads, saves |-> saves, widgets |-> widgets,
     encrypted |-> FALSE]

\* an encrypted document: PDFDocument.load refuses it unless it is called
\* with ignoreEncryption
EncryptedDocument(widgets) ==
    [loads |-> FALSE, saves |-> TRUE, widgets |-> widgets, encrypted |-> TRUE]

HasWidget(widgets, name) == \E i \in 1..Len(widgets) : widgets[i].name = name

WidgetIndex(widgets, name) ==
    CHOOSE i \in 1..Len(widgets) : widgets[i].name = name

kTrue == <<"t", "r", "u", "e">>

kOne == <<"1">>

kOn == <<"o", "n">>

kChecked == <<"c", "h", "e", "c", "k", "e", "d">>

\* shouldCheck of fillPDFFields in the API route
shouldCheck(value) ==
    \/ toLowerCase(value) = kTrue
    \/ toLowerCase(value) = kYes
    \/ value = kOne
    \/ toLowerCase(value) = kOn
    \/ toLowerCase(value) = kChecked

\* shouldCheck of fillPDFFields in the fillPdfForm tool
shouldCheckTool(value) ==
    \/ toLowerCase(value) = kTrue
    \/ toLowerCase(value) = kYes
    \/ value = kOne
    \/ toLowerCase(value) = kOn
    \/ toLowerCase(value) = kChecked

\* shouldCheck of fillPDFFieldsWithLib
shouldCheckWithLib(value) ==
    \/ toLowerCase(value) = kTrue
    \/ toLowerCase(value) = kYes
    \/ value = kOne
    \/ toLowerCase(value) = kOn

shouldCheckOf(which, value) ==
    CASE which = "route" -> shouldCheck(value)
      [] which = "tool" -> shouldCheckTool(value)
      [] OTHER -> shouldCheckWithLib(value)

\* includes with a defect: the guard lets every value through
includesAnything(options, value) == TRUE

\* options.includes(value)
includes(options, value) == \E i \in 1..Len(options) : options[i] = value

\* PDFTextField.setText: pdf-lib refuses a text longer than the maxLength
setText(w, value) ==
    IF w.faulty THEN Threw("setText failed")
    ELSE IF w.maxLength # 0 /\ Len(value) > w.maxLength
    THEN Threw("ExceededMaxLengthError")
    ELSE Returned([w EXCEPT !.text = value])

\* PDFCheckBox.check and PDFCheckBox.uncheck
setChecked(w, on) ==
    IF w.faulty THEN Threw("check failed")
    ELSE Returned([w EXCEPT !.checked = on])

\* PDFRadioGroup.select: pdf-lib asserts the option is one of the group's
selectRadio(w, value) ==
    IF w.faulty THEN Threw("select failed")
    ELSE IF ~ (\E i \in 1..Len(w.options) : w.options[i] = value)
    THEN Threw("option must be one of the options of the group")
    ELSE Returned([w EXCEPT !.selected = <<value>>])

\* PDFDropdown.select: pdf-lib takes an unlisted option as a custom one
selectDropdown(w, value) ==
    IF w.faulty THEN Threw("select failed")
    ELSE Returned([w EXCEPT !.selected = <<value>>])

\* the body of the try block for one entry: the widget after it, or a throw
fillField(which, widgets, fieldName, value) ==
    IF ~ HasWidget(widgets, fieldName) THEN Threw("NoSuchFieldError")
    ELSE LET w == widgets[WidgetIndex(widgets, fieldName)]
         IN  CASE w.kind = "text" -> setText(w, value)
               [] w.kind = "checkbox" ->
                    setChecked(w, shouldCheckOf(which, value))
               [] w.kind = "radio" ->
                    IF w.faulty THEN Threw("getOptions failed")
                    ELSE IF includes(w.options, value)
                    THEN selectRadio(w, value)
                    ELSE Returned(w)
               [] w.kind = "dropdown" ->
                    IF w.faulty THEN Threw("getOptions failed")
                    ELSE IF includes(w.options, value)
                    THEN selectDropdown(w, value)
                    ELSE Returned(w)
               [] OTHER -> Returned(w)

\* catchFieldError with a defect: the failure of one field leaves the loop
rethrowFieldError(attempt, widgets, fieldName) ==
    IF attempt.st = "throw" THEN attempt
    ELSE Returned([i \in 1..Len(widgets) |->
                      IF widgets[i].name = fieldName THEN attempt.val
                      ELSE widgets[i]])

\* catchFieldError with a defect: the field whose attempt threw is removed
\* from the form
dropFailedField(attempt, widgets, fieldName) ==
    IF attempt.st = "throw"
    THEN Returned(SelectSeq(widgets, LAMBDA w : w.name # fieldName))
    ELSE Returned([i \in 1..Len(widgets) |->
                      IF widgets[i].name = fieldName THEN attempt.val
                      ELSE widgets[i]])

\* try { ... } catch (fieldError) { console.warn(...) }: the form after the
\* entry, unchanged when the attempt threw
catchFieldError(attempt, widgets, fieldName) ==
    IF attempt.st = "throw" THEN Returned(widgets)
    ELSE Returned([i \in 1..Len(widgets) |->
                      IF widgets[i].name = fieldName THEN attempt.val
                      ELSE widgets[i]])

\* for (const [fieldName, value] of Object.entries(fieldValues)), from entry i
RECURSIVE fillLoop(_, _, _, _)
fillLoop(which, widgets, entries, i) ==
    IF i > Len(entries) THEN Returned(widgets)
    ELSE LET fieldName == entries[i][1]
             value == entries[i][2]
             after == catchFieldError(
                          fillField(which, widgets, fieldName, value),
                          widgets, fieldName)
         IN  IF after.st = "throw" THEN after
             ELSE fillLoop(which, after.val, entries, i + 1)

\* fillPDFFields with a defect: every checkbox is unchecked before the loop
fillPDFFieldsFromBlank(which, doc, fieldValues) ==
    IF ~ doc.loads THEN Threw("Failed to fill PDF fields: load")
    ELSE LET blank == [i \in 1..Len(doc.widgets) |->
                          [doc.widgets[i] EXCEPT !.checked = FALSE]]
             done == fillLoop(which, blank, fieldValues, 1)
         IN  IF done.st = "throw"
             THEN Threw("Failed to fill PDF fields: field")
             ELSE IF ~ doc.saves THEN Threw("Failed to fill PDF fields: save")
             ELSE Returned([doc EXCEPT !.widgets = done.val])

\* fillPDFFields / fillPDFFieldsWithLib: the filled document, or the throw
\* of the outer catch
fillPDFFields(which, doc, fieldValues) ==
    IF ~ doc.loads THEN Threw("Failed to fill PDF fields: load")
    ELSE LET done == fillLoop(which, doc.widgets, fieldValues, 1)
         IN  IF done.st = "throw"
             THEN Threw("Failed to fill PDF fields: field")
             ELSE IF ~ doc.saves THEN Threw("Failed to fill PDF fields: save")
             ELSE Returned([doc EXCEPT !.widgets = done.val])

----------------------------------------------------------------------------
(* Inputs of the sanitizer *)

\* keys the model's answer may carry: two of the schema, one hallucinated
RawKeys == {kFullName, kIsLlc, kGhostField}

\* characters of the generated string values
Alphabet == {" ", "a"}

RECURSIVE StringsOfLen(_)
StringsOfLen(n) ==
    IF n = 0 THEN {<<>>}
    ELSE {Append(s, c) : s \in StringsOfLen(n - 1), c \in Alphabet}

StringsUpTo(n) == UNION {StringsOfLen(k) : k \in 0..n}

\* the other values JSON.parse can put under a key
NonStringValues ==
    {JBool(TRUE), JBool(FALSE), JNum(0), JNum(12), JNull,
     JArr(<<>>), JArr(<<JArr(<<>>)>>), JArr(<<JStr(<<"a", " ">>), JNull>>),
     JObj(<<>>), JObj(<<<<kToString, JNum(1)>>>>),
     JArr(<<JObj(<<<<kToString, JStr(<<"a">>)>>>>)>>)}

\* size of a value in the response: a string by its length, others flat
Cost(x) == IF x.t = "string" THEN Len(x.v) + 1 ELSE 2

ValuesWithin(budget) ==
    {JStr(s) : s \in StringsUpTo(budget - 1)}
        \cup (IF budget >= 2 THEN NonStringValues ELSE {})

\* entry lists with distinct keys whose values cost at most `budget`
RECURSIVE EntryLists(_, _)
EntryLists(budget, used) ==
    {<<>>} \cup
    UNION {UNION {{<<<<k, x>>>> \o rest :
                      rest \in EntryLists(budget - Cost(x), used \cup {k})} :
                  x \in (IF budget >= 1 THEN ValuesWithin(budget) ELSE {})} :
           k \in RawKeys \ used}

\* what JSON.parse returns when the response is not an object
TopLevelOthers ==
    {JNull, JArr(<<>>), JArr(<<JStr(<<"a">>), JNum(12)>>), JStr(<<"a", "a">>),
     JStr(<<>>), JNum(12), JBool(TRUE), JBool(FALSE)}

RawValues ==
    {JObj(e) : e \in EntryLists(MaxResponseSize, {})} \cup TopLevelOthers

\* descriptors as extraction builds them: only a text field has a maxLength
Descriptors ==
    {PDFField(kFullName, "text", m) : m \in 0..MaxMaxLength}
        \cup {PDFField(kIsLlc, "checkbox", 0)}

\* field lists; a name identifies one widget of the form
FieldLists ==
    {<<>>} \cup {<<d>> : d \in Descriptors}
        \cup {<<d, e>> : d \in Descriptors, e \in Descriptors}

UniqueNames(fieldList) ==
    \A i, j \in 1..Len(fieldList) :
        fieldList[i].name = fieldList[j].name => i = j

Jonathan ==
    <<"J", "o", "n", "a", "t", "h", "a", "n", " ",
      "A", "l", "e", "x", "a", "n", "d", "e", "r", " ",
      "S", "m", "i", "t", "h", "s", "o", "n", "i", "a", "n">>

\* the schema and the model output of the spec's scenario
ScenarioFields ==
    <<PDFField(kFullName, "text", 20), PDFField(kIsLlc, "checkbox", 0)>>

ScenarioRaw ==
    JObj(<<<<kFullName, JStr(Jonathan)>>, <<kIsLlc, JStr(kYes)>>,
           <<kGhostField, JStr(<<"x">>)>>>>)

----------------------------------------------------------------------------
(* Idle values of the variables a specification does not use *)

IdleSanitizer ==
    /\ fields = <<>>
    /\ rawValues = JNull
    /\ sanitized = NotRun
    /\ resanitized = NotRun

IdleFiller ==
    /\ impl = "none"
    /\ pdf = <<>>
    /\ fillValues = <<>>
    /\ filled = NotRun

IdleParser ==
    /\ modelText = <<>>
    /\ sourceJson = JNull
    /\ shape = "none"
    /\ specParsed = NotRun
    /\ fillParsed = NotRun

IdleSchema ==
    /\ candidate = JNull
    /\ verdict = NotRun
    /\ schema = NotRun
    /\ schemaValid = NotRun
    /\ schemaAfter = NotRun

IdleHandler ==
    /\ handler = "none"
    /\ request = <<>>
    /\ pc = "idle"
    /\ calls = <<>>
    /\ pdfBuffer = NotRun
    /\ pdfText = NotRun
    /\ pdfFields = NotRun
    /\ prompt = NotRun
    /\ aiResponse = NotRun
    /\ parsedResponse = NotRun
    /\ sanitizedValues = NotRun
    /\ filledPdfBuffer = NotRun
    /\ response = NotRun

IdleConcurrent ==
    /\ invocations = <<>>
    /\ clock = 0
    /\ blobStore = <<>>

sanitizerVars == <<fields, rawValues, sanitized, resanitized>>

fillerVars == <<impl, pdf, fillValues, filled>>

parserVars == <<modelText, sourceJson, shape, specParsed, fillParsed>>

schemaVars == <<candidate, verdict, schema, schemaValid, schemaAfter>>

handlerVars ==
    <<handler, request, pc, calls, pdfBuffer, pdfText, pdfFields, prompt,
      aiResponse, parsedResponse, sanitizedValues, filledPdfBuffer, response>>

concurrentVars == <<invocations, clock, blobStore>>

----------------------------------------------------------------------------
(* The sanitizer as a state machine *)

InitSanitize ==
    /\ \/ /\ fields \in {f \in FieldLists : UniqueNames(f)}
          /\ rawValues \in RawValues
       \/ /\ fields = ScenarioFields
          /\ rawValues = ScenarioRaw
    /\ sanitized = NotRun
    /\ resanitized = NotRun
    /\ IdleFiller
    /\ IdleParser
    /\ IdleSchema
    /\ IdleHandler
    /\ IdleConcurrent

\* const sanitizedValues = sanitizeFieldValues(fieldValues, pdfFields)
Sanitize ==
    /\ sanitized = NotRun
    /\ sanitized' = sanitizeFieldValues(rawValues, fields)
    /\ UNCHANGED <<fields, rawValues, resanitized, fillerVars, parserVars,
                   schemaVars, handlerVars,
                   concurrentVars>>

\* the sanitizer applied to its own output
Resanitize ==
    /\ sanitized.st = "ok"
    /\ resanitized = NotRun
    /\ resanitized' = sanitizeFieldValues(asObject(sanitized.val), fields)
    /\ UNCHANGED <<fields, rawValues, sanitized, fillerVars, parserVars,
                   schemaVars, handlerVars,
                   concurrentVars>>

NextSanitize == Sanitize \/ Resanitize

SpecSanitize == InitSanitize /\ [][NextSanitize]_vars

----------------------------------------------------------------------------
(* The filler as a state machine *)

kStatus == <<"s", "t", "a", "t", "u", "s">>

kState == <<"s", "t", "a", "t", "e">>

kSignature == <<"s", "i", "g">>

optS == <<"S">>

optM == <<"M">>

\* a text one character longer than the text field accepts
TooLong == [i \in 1..(MaxMaxLength + 1) |-> "a"]

Implementations == {"route", "tool", "lib"}

\* a form with one widget of every kind; `broken` names the faulty widget
FormWidgets(checked, preselected, broken) ==
    <<Widget(kFullName, "text", MaxMaxLength, FALSE, <<>>, <<>>,
             broken = kFullName),
      Widget(kIsLlc, "checkbox", 0, checked, <<>>, <<>>, broken = kIsLlc),
      Widget(kStatus, "radio", 0, FALSE, <<optS, optM>>,
             IF preselected THEN <<optM>> ELSE <<>>, broken = kStatus),
      Widget(kState, "dropdown", 0, FALSE, <<optS, optM>>,
             IF preselected THEN <<optM>> ELSE <<>>, broken = kState),
      Widget(kSignature, "other", 0, FALSE, <<>>, <<>>, FALSE)>>

Forms ==
    {Document(TRUE, TRUE, FormWidgets(c, p, b)) :
        c \in BOOLEAN, p \in BOOLEAN, b \in {<<>>, kFullName, kStatus}}
      \cup {Document(FALSE, TRUE, FormWidgets(FALSE, FALSE, <<>>)),
            Document(TRUE, FALSE, FormWidgets(FALSE, FALSE, <<>>))}

FillKeys == {kFullName, kIsLlc, kStatus, kState, kSignature, kGhostField}

\* a listed option, an unlisted word, an overlong text
FillSamples == {optS, <<"X">>, TooLong}

RECURSIVE ValueMaps(_, _)
ValueMaps(n, used) ==
    {<<>>} \cup
    (IF n = 0 THEN {}
     ELSE UNION {{<<<<k, x>>>> \o rest :
                     x \in FillSamples, rest \in ValueMaps(n - 1, used \cup {k})} :
                 k \in FillKeys \ used})

\* every spelling of a word in upper and lower case
CaseVariants(word) ==
    {[i \in 1..Len(word) |-> IF m[i] THEN upperChar(word[i]) ELSE word[i]] :
        m \in [1..Len(word) -> BOOLEAN]}

\* values for a checkbox: the words of the truth table in every case, and
\* words that are none of them
CheckboxSamples ==
    CaseVariants(kTrue) \cup CaseVariants(kYes) \cup CaseVariants(kOn)
      \cup CaseVariants(kChecked)
      \cup {kOne, <<>>, <<"f", "a", "l", "s", "e">>, <<"n", "o">>,
            <<"r", "a", "n", "d", "o", "m">>, <<"0">>, <<" ", "y", "e", "s">>,
            <<"y">>, <<"o", "n", "e">>}

CheckboxForms ==
    {Document(TRUE, TRUE,
              <<Widget(kIsLlc, "checkbox", 0, c, <<>>, <<>>, FALSE)>>) :
        c \in BOOLEAN}

InitFill ==
    /\ impl \in Implementations
    /\ \/ /\ pdf \in Forms
          /\ fillValues \in ValueMaps(MaxFillEntries, {})
       \/ /\ pdf \in CheckboxForms
          /\ fillValues \in {<<<<kIsLlc, x>>>> : x \in CheckboxSamples}
    /\ filled = NotRun
    /\ IdleSanitizer
    /\ IdleParser
    /\ IdleSchema
    /\ IdleHandler
    /\ IdleConcurrent

\* const filledPdfBuffer = await fillPDFFields(pdfBuffer, sanitizedValues)
Fill ==
    /\ filled = NotRun
    /\ filled' = fillPDFFields(impl, pdf, fillValues)
    /\ UNCHANGED <<impl, pdf, fillValues, sanitizerVars, parserVars,
                   schemaVars, handlerVars,
                   concurrentVars>>

NextFill == Fill

SpecFill == InitFill /\ [][NextFill]_vars

----------------------------------------------------------------------------
(* Properties of the sanitizer *)

SchemaNames == {fields[i].name : i \in 1..Len(fields)}

\* C1: every key of the map sanitizeFieldValues returns is the name of a
\* descriptor of the field list; a hallucinated key never survives.
C1_KeysWithinSchema ==
    /\ sanitized.st = "ok" => KeysOf(sanitized.val) \subseteq SchemaNames
    /\ resanitized.st = "ok" => KeysOf(resanitized.val) \subseteq SchemaNames

\* the map came back non-empty although the answer carried a ghost key
C1_Witness ==
    /\ sanitized.st = "ok"
    /\ sanitized.val # <<>>
    /\ rawValues.t = "object"
    /\ HasKey(rawValues.v, kGhostField)
    /\ Truthy(ValueAt(rawValues.v, kGhostField))

\* C2: sanitizing the output of sanitizeFieldValues again returns the same
\* map, keys and values.
C2_Idempotent ==
    resanitized.st # "none" => resanitized = sanitized

\* C3: a value returned under the name of a descriptor that declares
\* maxLength = n > 0 is at most n characters long.
C3_TruncationLaw ==
    sanitized.st = "ok" =>
        \A i \in 1..Len(fields) :
            (fields[i].maxLength > 0 /\ HasKey(sanitized.val, fields[i].name))
                => Len(ValueAt(sanitized.val, fields[i].name))
                       <= fields[i].maxLength

\* a string longer than the limit was cut to exactly the limit
C3_Witness ==
    /\ sanitized.st = "ok"
    /\ rawValues.t = "object"
    /\ \E i \in 1..Len(fields) :
          /\ fields[i].maxLength > 0
          /\ HasKey(rawValues.v, fields[i].name)
          /\ ValueAt(rawValues.v, fields[i].name).t = "string"
          /\ Len(trim(ValueAt(rawValues.v, fields[i].name).v))
                 > fields[i].maxLength
          /\ HasKey(sanitized.val, fields[i].name)
          /\ Len(ValueAt(sanitized.val, fields[i].name)) = fields[i].maxLength

\* C4: sanitizeFieldValues returns a map for every value JSON.parse can
\* hand it; it never throws.
C4_Total ==
    sanitized.st # "throw" /\ resanitized.st # "throw"

JonathanCutAt20 == SubSeq(Jonathan, 1, 20)

JonathanAlexanderSmit == SubSeq(Jonathan, 1, 23)

IsScenario == fields = ScenarioFields /\ rawValues = ScenarioRaw

\* C5 as written: the scenario yields full_name "Jonathan Alexander Smit"
\* (23 characters) and is_llc "yes".
C5_ScenarioAsWritten ==
    (IsScenario /\ sanitized.st # "none") =>
        sanitized = Returned(<<<<kFullName, JonathanAlexanderSmit>>,
                               <<kIsLlc, kYes>>>>)

\* C5 amended: the scenario yields full_name "Jonathan Alexander S", the
\* first 20 characters, and is_llc "yes"; ghost_field is dropped.
C5_ScenarioAmended ==
    (IsScenario /\ sanitized.st # "none") =>
        sanitized = Returned(<<<<kFullName, JonathanCutAt20>>,
                               <<kIsLlc, kYes>>>>)

\* the scenario has been sanitized
C5_Witness == IsScenario /\ sanitized.st = "ok"

----------------------------------------------------------------------------
(* Properties of the filler *)

InputWidget(name) == pdf.widgets[WidgetIndex(pdf.widgets, name)]

OutputWidget(name) == filled.val.widgets[WidgetIndex(filled.val.widgets, name)]

TruthTableWords == {kTrue, kYes, kOne, kOn, kChecked}

\* C6: in every filler (API route, tool, pdf-lib helper) a checkbox value
\* that is, ignoring case, one of true, yes, 1, on, checked leaves the
\* checkbox checked, and any other string leaves it unchecked.
C6_CheckboxTruthTable ==
    filled.st = "ok" =>
        \A i \in 1..Len(fillValues) :
            LET name == fillValues[i][1]
                value == fillValues[i][2]
            IN  (/\ HasWidget(pdf.widgets, name)
                 /\ InputWidget(name).kind = "checkbox"
                 /\ ~ InputWidget(name).faulty)
                    => (OutputWidget(name).checked
                            <=> toLowerCase(value) \in TruthTableWords)

IsChoice(w) == w.kind \in {"radio", "dropdown"}

\* the declared option set of a group
OptionSet(w) == {w.options[k] : k \in 1..Len(w.options)}

\* entry i gives a radio group or dropdown a value that is not an option
UnlistedChoice(i) ==
    /\ HasWidget(pdf.widgets, fillValues[i][1])
    /\ IsChoice(InputWidget(fillValues[i][1]))
    /\ fillValues[i][2] \notin OptionSet(InputWidget(fillValues[i][1]))

\* C7: a radio or dropdown value that is not verbatim an option of the
\* group leaves the prior selection unchanged, no option outside the
\* declared set is ever selected, and the fill does not raise.
C7_ChoiceGuard ==
    /\ (/\ filled.st # "none"
        /\ pdf.loads /\ pdf.saves
        /\ \E i \in 1..Len(fillValues) : UnlistedChoice(i))
           => filled.st = "ok"
    /\ filled.st = "ok" =>
          /\ \A i \in 1..Len(fillValues) :
                UnlistedChoice(i) =>
                    OutputWidget(fillValues[i][1]).selected
                        = InputWidget(fillValues[i][1]).selected
          /\ \A j \in 1..Len(filled.val.widgets) :
                IsChoice(filled.val.widgets[j]) =>
                    \A k \in 1..Len(filled.val.widgets[j].selected) :
                        filled.val.widgets[j].selected[k]
                            \in OptionSet(filled.val.widgets[j])

\* a preselected dropdown was given an unlisted option and the fill returned
C7_Witness ==
    /\ filled.st = "ok"
    /\ \E i \in 1..Len(fillValues) :
          /\ UnlistedChoice(i)
          /\ InputWidget(fillValues[i][1]).kind = "dropdown"
          /\ InputWidget(fillValues[i][1]).selected # <<>>
          /\ ~ InputWidget(fillValues[i][1]).faulty

\* entry i names a live widget of a supported kind and carries a value the
\* widget accepts
ValidEntry(i) ==
    LET name == fillValues[i][1]
        value == fillValues[i][2]
    IN  /\ HasWidget(pdf.widgets, name)
        /\ ~ InputWidget(name).faulty
        /\ CASE InputWidget(name).kind = "text" ->
                  \/ InputWidget(name).maxLength = 0
                  \/ Len(value) <= InputWidget(name).maxLength
             [] InputWidget(name).kind = "checkbox" -> TRUE
             [] InputWidget(name).kind \in {"radio", "dropdown"} ->
                  value \in OptionSet(InputWidget(name))
             [] OTHER -> FALSE

\* entry i fails: no live widget, an operation that throws, or a refused text
FailingEntry(i) ==
    LET name == fillValues[i][1]
        value == fillValues[i][2]
    IN  \/ ~ HasWidget(pdf.widgets, name)
        \/ /\ InputWidget(name).faulty
           /\ InputWidget(name).kind # "other"
        \/ /\ InputWidget(name).kind = "text"
           /\ InputWidget(name).maxLength # 0
           /\ Len(value) > InputWidget(name).maxLength

\* the document holds the value of entry i
Applied(i) ==
    LET name == fillValues[i][1]
        value == fillValues[i][2]
    IN  CASE InputWidget(name).kind = "text" -> OutputWidget(name).text = value
          [] InputWidget(name).kind = "checkbox" ->
               OutputWidget(name).checked = shouldCheckOf(impl, value)
          [] OTHER -> OutputWidget(name).selected = <<value>>

\* C8: a failure on one entry never aborts the fill and never keeps another
\* entry from being applied: on a document that loads and saves the fill
\* returns, and every valid entry is applied, wherever it stands in the map.
C8_PerFieldIsolation ==
    (filled.st # "none" /\ pdf.loads /\ pdf.saves) =>
        /\ filled.st = "ok"
        /\ \A i \in 1..Len(fillValues) : ValidEntry(i) => Applied(i)

\* a failing entry came before a valid one, which was applied all the same
C8_Witness ==
    /\ filled.st = "ok"
    /\ \E i, j \in 1..Len(fillValues) :
          i < j /\ FailingEntry(i) /\ ValidEntry(j) /\ Applied(j)

----------------------------------------------------------------------------
(* The response parsers: cleanAIResponse, extractJsonObject, JSON.parse *)

Quote == "\""

\* the grave accent, which a TLA+ string cannot hold, as a character
Backtick == "grave"

\* the three grave accents of a markdown fence
Fence == <<Backtick, Backtick, Backtick>>

kJson == <<"j", "s", "o", "n">>

kFalse == <<"f", "a", "l", "s", "e">>

kNull == <<"n", "u", "l", "l">>

kPyTrue == <<"T", "r", "u", "e">>

kPyFalse == <<"F", "a", "l", "s", "e">>

\* the text from 0-based index `from` on: substring(from) and slice(from)
dropFirst(s, from) == SubSeq(s, Min(from, Len(s)) + 1, Len(s))

\* the p that starts at 1-based position i of s
matchesAt(s, i, p) ==
    i >= 1 /\ i + Len(p) - 1 <= Len(s) /\ SubSeq(s, i, i + Len(p) - 1) = p

\* cleanAIResponse(responseText)
cleanAIResponse(responseText) ==
    LET cleaned == trim(responseText)
        noHead == IF startsWith(cleaned, Fence \o kJson)
                  THEN dropFirst(cleaned, 7) ELSE cleaned
        noTail == IF endsWith(noHead, Fence)
                  THEN substring(noHead, 0, Len(noHead) - 3) ELSE noHead
    IN  trim(noTail)

\* \w of a regular expression
IsWordChar(c) ==
    \/ \E i \in 1..Len(UpperCase) : UpperCase[i] = c \/ LowerCase[i] = c
    \/ \E i \in 1..Len(Digit) : Digit[i] = c
    \/ c = "_"

\* \b of a regular expression, before the character at position i
IsWordBoundary(s, i) ==
    LET before == i > 1 /\ i - 1 <= Len(s) /\ IsWordChar(s[i - 1])
        after == i >= 1 /\ i <= Len(s) /\ IsWordChar(s[i])
    IN  before # after

\* the word stands at position k of s as a whole word: /\bword\b/
wordAt(s, word, k) ==
    /\ matchesAt(s, k, word)
    /\ IsWordBoundary(s, k)
    /\ IsWordBoundary(s, k + Len(word))

\* t.replace(/\bword\b/g, by), scanning from position i: the text up to the
\* next match, the replacement, and the scan resumed after the match
RECURSIVE replaceWord(_, _, _, _)
replaceWord(s, word, by, i) ==
    IF \E k \in i..Len(s) : wordAt(s, word, k)
    THEN LET next == CHOOSE k \in i..Len(s) :
                         /\ wordAt(s, word, k)
                         /\ \A j \in i..(k - 1) : ~ wordAt(s, word, j)
         IN  SubSeq(s, i, next - 1) \o by
               \o replaceWord(s, word, by, next + Len(word))
    ELSE SubSeq(s, i, Len(s))

\* t.replace(/^FENCE(?:json)?/i, '') on a text that starts with the fence
stripLeadingFence(t) ==
    LET rest == dropFirst(t, Len(Fence))
    IN  IF Len(rest) >= Len(kJson)
           /\ toLowerCase(SubSeq(rest, 1, Len(kJson))) = kJson
        THEN dropFirst(rest, Len(kJson))
        ELSE rest

\* t.replace(/FENCE$/, '')
stripTrailingFence(t) ==
    IF endsWith(t, Fence) THEN substring(t, 0, Len(t) - Len(Fence)) ELSE t

\* String.prototype.indexOf(c), 0-based, -1 when absent
indexOf(s, c) ==
    IF \E i \in 1..Len(s) : s[i] = c
    THEN (CHOOSE i \in 1..Len(s) :
             s[i] = c /\ \A j \in 1..(i - 1) : s[j] # c) - 1
    ELSE -1

\* String.prototype.lastIndexOf(c), 0-based, -1 when absent
lastIndexOf(s, c) ==
    IF \E i \in 1..Len(s) : s[i] = c
    THEN (CHOOSE i \in 1..Len(s) :
             s[i] = c /\ \A j \in (i + 1)..Len(s) : s[j] # c) - 1
    ELSE -1

\* extractJsonObject(text): the sliced text, or the throw
extractJsonObject(text) ==
    LET t0 == trim(text)
        t1 == IF startsWith(t0, Fence)
              THEN trim(stripTrailingFence(stripLeadingFence(t0)))
              ELSE t0
        t2 == replaceWord(replaceWord(t1, kPyTrue, kTrue, 1),
                          kPyFalse, kFalse, 1)
        start == indexOf(t2, "{")
        end == lastIndexOf(t2, "}")
    IN  IF start = -1 \/ end = -1 \/ end <= start
        THEN Threw("No JSON object found in model output")
        ELSE Returned(SubSeq(t2, start + 1, end + 1))

\* JSON.parse, for texts without escapes, signs, fractions and exponents.
\* A parse step returns [ok, val, pos]: pos is the position after the value.
ParseFail == [ok |-> FALSE, val |-> JNull, pos |-> 0]

Parsed(x, pos) == [ok |-> TRUE, val |-> x, pos |-> pos]

RECURSIVE skipWs(_, _)
skipWs(s, i) ==
    IF i <= Len(s) /\ s[i] \in WhiteSpace THEN skipWs(s, i + 1) ELSE i

\* a string literal whose opening quote is at position i
parseString(s, i) ==
    IF \E k \in (i + 1)..Len(s) : s[k] = Quote
    THEN LET close == CHOOSE k \in (i + 1)..Len(s) :
                          s[k] = Quote /\ \A j \in (i + 1)..(k - 1) : s[j] # Quote
             body == SubSeq(s, i + 1, close - 1)
         IN  IF \E j \in 1..Len(body) : body[j] = "\n"
             THEN ParseFail
             ELSE Parsed(JStr(body), close + 1)
    ELSE ParseFail

RECURSIVE digitsEnd(_, _)
digitsEnd(s, i) ==
    IF i <= Len(s) /\ (\E d \in 1..Len(Digit) : Digit[d] = s[i])
    THEN digitsEnd(s, i + 1) ELSE i

RECURSIVE digitsValue(_)
digitsValue(ds) ==
    IF ds = <<>> THEN 0
    ELSE 10 * digitsValue(SubSeq(ds, 1, Len(ds) - 1))
           + ((CHOOSE d \in 1..Len(Digit) : Digit[d] = ds[Len(ds)]) - 1)

\* an integer literal that starts at position i
parseNumber(s, i) ==
    LET stop == digitsEnd(s, i)
    IN  IF stop = i \/ (stop > i + 1 /\ s[i] = "0") THEN ParseFail
        ELSE Parsed(JNum(digitsValue(SubSeq(s, i, stop - 1))), stop)

RECURSIVE parseValue(_, _)
RECURSIVE parseMembers(_, _, _)
RECURSIVE parseElements(_, _, _)

\* the members of an object from position i on; acc holds those read so far
parseMembers(s, i, acc) ==
    LET k == skipWs(s, i)
    IN  IF k > Len(s) \/ s[k] # Quote THEN ParseFail
        ELSE LET key == parseString(s, k)
                 colon == IF key.ok THEN skipWs(s, key.pos) ELSE 0
             IN  IF ~ key.ok \/ colon > Len(s) \/ s[colon] # ":" THEN ParseFail
                 ELSE LET member == parseValue(s, colon + 1)
                          next == IF member.ok THEN skipWs(s, member.pos) ELSE 0
                      IN  IF ~ member.ok \/ next > Len(s) THEN ParseFail
                          ELSE IF s[next] = ","
                          THEN parseMembers(s, next + 1,
                                   SetKey(acc, key.val.v, member.val))
                          ELSE IF s[next] = "}"
                          THEN Parsed(JObj(SetKey(acc, key.val.v, member.val)),
                                      next + 1)
                          ELSE ParseFail

\* the elements of an array from position i on
parseElements(s, i, acc) ==
    LET element == parseValue(s, i)
        next == IF element.ok THEN skipWs(s, element.pos) ELSE 0
    IN  IF ~ element.ok \/ next > Len(s) THEN ParseFail
        ELSE IF s[next] = ","
        THEN parseElements(s, next + 1, Append(acc, element.val))
        ELSE IF s[next] = "]"
        THEN Parsed(JArr(Append(acc, element.val)), next + 1)
        ELSE ParseFail

\* the JSON value that starts at or after position i
parseValue(s, i) ==
    LET k == skipWs(s, i)
    IN  IF k > Len(s) THEN ParseFail
        ELSE CASE s[k] = "{" ->
                    IF skipWs(s, k + 1) <= Len(s) /\ s[skipWs(s, k + 1)] = "}"
                    THEN Parsed(JObj(<<>>), skipWs(s, k + 1) + 1)
                    ELSE parseMembers(s, k + 1, <<>>)
               [] s[k] = "[" ->
                    IF skipWs(s, k + 1) <= Len(s) /\ s[skipWs(s, k + 1)] = "]"
                    THEN Parsed(JArr(<<>>), skipWs(s, k + 1) + 1)
                    ELSE parseElements(s, k + 1, <<>>)
               [] s[k] = Quote -> parseString(s, k)
               [] matchesAt(s, k, kTrue) -> Parsed(JBool(TRUE), k + Len(kTrue))
               [] matchesAt(s, k, kFalse) ->
                    Parsed(JBool(FALSE), k + Len(kFalse))
               [] matchesAt(s, k, kNull) -> Parsed(JNull, k + Len(kNull))
               [] OTHER -> parseNumber(s, k)

\* JSON.parse(text): the value, or the SyntaxError
JSONparse(text) ==
    LET r == parseValue(text, 1)
    IN  IF r.ok /\ skipWs(text, r.pos) > Len(text) THEN Returned(r.val)
        ELSE Threw("SyntaxError")

\* const jsonText = extractJsonObject(aiResponse?.text || '');
\* const questionSpec = JSON.parse(jsonText)
parseQuestionSpec(text) ==
    LET jsonText == extractJsonObject(text)
    IN  IF jsonText.st = "throw" THEN jsonText ELSE JSONparse(jsonText.val)

\* parseFieldValues with a defect: an undecodable response counts as an
\* empty map
parseFieldValuesOrEmpty(text) ==
    LET decoded == JSONparse(cleanAIResponse(text))
    IN  IF decoded.st = "throw" THEN Returned(JObj(<<>>)) ELSE decoded

\* const cleanedResponse = cleanAIResponse(aiResponse.text);
\* try { fieldValues = JSON.parse(cleanedResponse) } catch { throw ... }
parseFieldValues(text) ==
    LET decoded == JSONparse(cleanAIResponse(text))
    IN  IF decoded.st = "throw"
        THEN Threw("Failed to parse AI response for field values")
        ELSE decoded

----------------------------------------------------------------------------
(* The parsers as a state machine *)

\* the text of a JSON value as the model writes it; with `python` the
\* boolean literals are written True and False
RECURSIVE render(_, _)
RECURSIVE renderMembers(_, _, _)
RECURSIVE renderElements(_, _, _)

renderMembers(entries, python, i) ==
    IF i > Len(entries) THEN <<>>
    ELSE <<Quote>> \o entries[i][1] \o <<Quote, ":", " ">>
           \o render(entries[i][2], python)
           \o (IF i < Len(entries) THEN <<",", " ">> ELSE <<>>)
           \o renderMembers(entries, python, i + 1)

renderElements(elems, python, i) ==
    IF i > Len(elems) THEN <<>>
    ELSE render(elems[i], python)
           \o (IF i < Len(elems) THEN <<",">> ELSE <<>>)
           \o renderElements(elems, python, i + 1)

render(x, python) ==
    CASE x.t = "string" -> <<Quote>> \o x.v \o <<Quote>>
      [] x.t = "number" -> numberToString(x.v)
      [] x.t = "boolean" ->
           IF x.v THEN (IF python THEN kPyTrue ELSE kTrue)
           ELSE (IF python THEN kPyFalse ELSE kFalse)
      [] x.t = "array" -> <<"[">> \o renderElements(x.v, python, 1) \o <<"]">>
      [] x.t = "object" -> <<"{">> \o renderMembers(x.v, python, 1) \o <<"}">>
      [] OTHER -> kNull

\* objects the model may mean to send
SourceObjects ==
    {JObj(<<>>),
     JObj(<<<<<<"a">>, JBool(TRUE)>>>>),
     JObj(<<<<<<"a">>, JBool(FALSE)>>, <<<<"b">>, JStr(<<"x", " ", "y">>)>>>>),
     JObj(<<<<<<"v">>, JStr(kPyTrue)>>>>),
     JObj(<<<<<<"v">>, JStr(<<"i", "s", "T", "r", "u", "e">>)>>>>),
     JObj(<<<<kPyFalse, JStr(<<"x">>)>>>>),
     JObj(<<<<<<"n">>, JNum(12)>>, <<<<"z">>, JNull>>>>),
     JObj(<<<<<<"q">>, JArr(<<JBool(TRUE), JStr(<<"b">>)>>)>>>>),
     JObj(<<<<<<"o">>, JObj(<<<<<<"i">>, JBool(FALSE)>>>>)>>>>),
     JObj(<<<<<<"s">>, JStr(<<"a", "}", "b">>)>>>>)}

\* commentary the model may put before the object
Prefaces == {<<>>, <<"S", "u", "r", "e", ":">>, <<"{", "x", "}", ":">>}

\* commentary the model may put after the object
Postscripts == {<<>>, <<"D", "o", "n", "e", ".">>, <<"{", "x", "}">>}

\* fence: "json" tagged, "JSON" tagged in capitals, "plain" untagged, "none"
Shapes ==
    [fence : {"json", "JSON", "plain", "none"}, python : BOOLEAN,
     pre : Prefaces, post : Postscripts]

\* aiResponse.text for an object and a shape
Compose(object, sh) ==
    LET body == render(object, sh.python)
        open == CASE sh.fence = "json" -> Fence \o kJson
                  [] sh.fence = "JSON" -> Fence \o <<"J", "S", "O", "N">>
                  [] OTHER -> Fence
        fenced == IF sh.fence = "none" THEN body
                  ELSE open \o <<"\n">> \o body \o <<"\n">> \o Fence
    IN  (IF sh.pre # <<>> THEN sh.pre \o <<"\n">> ELSE <<>>)
          \o fenced
          \o (IF sh.post # <<>> THEN <<"\n">> \o sh.post ELSE <<>>)

InitParse ==
    /\ sourceJson \in SourceObjects
    /\ shape \in Shapes
    /\ modelText = Compose(sourceJson, shape)
    /\ specParsed = NotRun
    /\ fillParsed = NotRun
    /\ IdleSanitizer
    /\ IdleFiller
    /\ IdleSchema
    /\ IdleHandler
    /\ IdleConcurrent

\* extractPdfFormSpec.execute: "Parse JSON safely"
ParseQuestionSpec ==
    /\ specParsed = NotRun
    /\ specParsed' = parseQuestionSpec(modelText)
    /\ UNCHANGED <<modelText, sourceJson, shape, fillParsed, sanitizerVars,
                   fillerVars, schemaVars, handlerVars,
                   concurrentVars>>

\* fillPdfForm.execute and POST: "Parse AI response"
ParseFieldValues ==
    /\ fillParsed = NotRun
    /\ fillParsed' = parseFieldValues(modelText)
    /\ UNCHANGED <<modelText, sourceJson, shape, specParsed, sanitizerVars,
                   fillerVars, schemaVars, handlerVars,
                   concurrentVars>>

NextParse == ParseQuestionSpec \/ ParseFieldValues

SpecParse == InitParse /\ [][NextParse]_vars

----------------------------------------------------------------------------
(* Properties of the parsers *)

\* commentary that is prose: it holds no brace (the slice between the first
\* "{" and the last "}" is the design's own defence against commentary)
IsProse(text) == \A i \in 1..Len(text) : text[i] \notin {"{", "}"}

\* C9: an object wrapped in a json fence, with commentary before and/or
\* after it and the booleans written True/False, decodes through
\* extractJsonObject and JSON.parse to the object its clean JSON text denotes.
C9_ParserRepair ==
    (/\ specParsed.st # "none"
     /\ shape.fence = "json"
     /\ shape.python
     /\ (shape.pre # <<>> \/ shape.post # <<>>)
     /\ IsProse(shape.pre) /\ IsProse(shape.post))
        => specParsed = Returned(sourceJson)

\* C10: a response that is the object inside a fenced block, tagged json or
\* untagged, is decoded by cleanAIResponse and JSON.parse to the object.
C10_FenceStripping ==
    (/\ fillParsed.st # "none"
     /\ shape.fence \in {"json", "plain"}
     /\ ~ shape.python
     /\ shape.pre = <<>> /\ shape.post = <<>>)
        => fillParsed = Returned(sourceJson)

----------------------------------------------------------------------------
(* The schema extractor (extractPDFFields, extractPDFFieldsWithLib) and     *)
(* validatePDFFields                                                        *)

\* fieldType with a defect: the last arm of the chain is missing
fieldTypeWithoutDropdown(kind) ==
    CASE kind = "text" -> "text"
      [] kind = "checkbox" -> "checkbox"
      [] kind = "radio" -> "radio"
      [] OTHER -> "unknown"

\* let fieldType = 'unknown', then the instanceof chain over the widget
fieldType(kind) ==
    CASE kind = "text" -> "text"
      [] kind = "checkbox" -> "checkbox"
      [] kind = "radio" -> "radio"
      [] kind = "dropdown" -> "dropdown"
      [] OTHER -> "unknown"

\* maxLength = field.getMaxLength() || undefined, read for a text field only
getMaxLength(w) == IF w.kind = "text" THEN w.maxLength ELSE 0

\* fields.push({ name: fieldName, label: fieldName, type: fieldType,
\* maxLength })
describe(w) ==
    [name |-> w.name, label |-> w.name, type |-> fieldType(w.kind),
     maxLength |-> getMaxLength(w)]

\* PDFDocument.load(pdfBuffer) of the route, the fillPdfForm tool and the
\* pdf-lib helper; PDFDocument.load(pdfBuffer, { ignoreEncryption: true })
\* of the extractPdfFormSpec tool ("spec")
loadsIn(which, doc) == doc.loads \/ (which = "spec" /\ doc.encrypted)

\* extractPDFFields / extractPDFFieldsWithLib: the descriptors, one for
\* each of form.getFields() in order, or the throw of the catch
extractPDFFields(which, doc) ==
    IF ~ loadsIn(which, doc) THEN Threw("Failed to extract PDF fields: load")
    ELSE Returned([i \in 1..Len(doc.widgets) |-> describe(doc.widgets[i])])

\* the value `undefined`
Undefined == [t |-> "undefined", v |-> "undefined"]

\* what validatePDFFields may be handed as one element of the list: an
\* object with the properties name and type, each any JavaScript value
Descriptor(name, type) ==
    [t |-> "object", v |-> [name |-> name, type |-> type]]

\* typeof field.name === 'string' && typeof field.type === 'string'
hasStringNameAndType(field) ==
    field.v.name.t = "string" /\ field.v.type.t = "string"

\* fields.every(field => ...) from element i on: false at the first element
\* that fails, a TypeError on reading a property of null or undefined
RECURSIVE every(_, _)
every(list, i) ==
    IF i > Len(list) THEN Returned(TRUE)
    ELSE IF list[i].t \in {"null", "undefined"}
    THEN Threw("TypeError: Cannot read properties of null")
    ELSE IF list[i].t # "object" THEN Returned(FALSE)
    ELSE IF ~ hasStringNameAndType(list[i]) THEN Returned(FALSE)
    ELSE every(list, i + 1)

\* validatePDFFields(fields): Array.isArray(fields) && fields.every(...)
validatePDFFields(x) ==
    IF x.t # "array" THEN Returned(FALSE) ELSE every(x.v, 1)

\* a PDFField[] as the JavaScript array validatePDFFields reads
asArray(fieldList) ==
    JArr([i \in 1..Len(fieldList) |->
             Descriptor(JStr(fieldList[i].name),
                        [t |-> "string", v |-> fieldList[i].type])])

----------------------------------------------------------------------------
(* The schema extractor and the validation as a state machine *)

\* longest list handed to validatePDFFields
MaxDescriptors == 2

\* the copies of extractPDFFields: the three fillers' and the
\* extractPdfFormSpec tool's
Extractors == Implementations \cup {"spec"}

\* a form whose text field has no length limit and whose first widget has
\* an empty name
PlainWidgets ==
    <<Widget(<<>>, "checkbox", 0, FALSE, <<>>, <<>>, FALSE),
      Widget(kFullName, "text", 0, FALSE, <<>>, <<>>, FALSE),
      Widget(kSignature, "other", 0, FALSE, <<>>, <<>>, FALSE)>>

SchemaForms ==
    {Document(TRUE, TRUE, FormWidgets(FALSE, p, b)) :
        p \in BOOLEAN, b \in {<<>>, kStatus}}
      \cup {Document(TRUE, TRUE, PlainWidgets),
            Document(TRUE, TRUE, <<>>),
            Document(FALSE, TRUE, FormWidgets(FALSE, FALSE, <<>>)),
            Document(TRUE, FALSE, FormWidgets(FALSE, FALSE, <<>>)),
            EncryptedDocument(FormWidgets(FALSE, FALSE, <<>>))}

SchemaKeys == {kFullName, kStatus, kGhostField}

\* a listed option that is also a text the text field accepts, and a text
\* the text field refuses
SchemaSamples == {optS, TooLong}

RECURSIVE SchemaValueMaps(_, _)
SchemaValueMaps(n, used) ==
    {<<>>} \cup
    (IF n = 0 THEN {}
     ELSE UNION {{<<<<k, x>>>> \o rest :
                     x \in SchemaSamples,
                     rest \in SchemaValueMaps(n - 1, used \cup {k})} :
                 k \in SchemaKeys \ used})

\* values a caller may leave under `name`
CandidateNames == {JStr(<<>>), JStr(kFullName), JNum(1), Undefined}

\* values a caller may leave under `type`
CandidateTypes ==
    {[t |-> "string", v |-> k] :
        k \in {"text", "checkbox", "radio", "dropdown", "unknown",
               "signature", ""}}
      \cup {Undefined}

CandidateElements ==
    {Descriptor(n, k) : n \in CandidateNames, k \in CandidateTypes}
      \cup {JNull}

RECURSIVE CandidateLists(_)
CandidateLists(n) ==
    IF n = 0 THEN {<<>>}
    ELSE CandidateLists(n - 1)
           \cup {Append(l, e) : l \in CandidateLists(n - 1),
                                e \in CandidateElements}

Candidates ==
    {JArr(l) : l \in CandidateLists(MaxDescriptors)} \cup {JNull, Undefined}

InitSchema ==
    /\ \/ /\ impl \in Extractors
          /\ pdf \in SchemaForms
          /\ fillValues \in SchemaValueMaps(MaxFillEntries, {})
          /\ candidate = JNull
       \/ /\ impl = "none"
          /\ pdf = <<>>
          /\ fillValues = <<>>
          /\ candidate \in Candidates
    /\ filled = NotRun
    /\ verdict = NotRun
    /\ schema = NotRun
    /\ schemaValid = NotRun
    /\ schemaAfter = NotRun
    /\ IdleSanitizer
    /\ IdleParser
    /\ IdleHandler
    /\ IdleConcurrent

\* validatePDFFields on a list a caller built
ValidateCandidate ==
    /\ impl = "none"
    /\ verdict = NotRun
    /\ verdict' = validatePDFFields(candidate)
    /\ UNCHANGED <<candidate, schema, schemaValid, schemaAfter, sanitizerVars,
                   fillerVars, parserVars, handlerVars,
                   concurrentVars>>

\* const pdfFields = await extractPDFFields(pdfBuffer)
ExtractSchema ==
    /\ impl # "none"
    /\ schema = NotRun
    /\ schema' = extractPDFFields(impl, pdf)
    /\ UNCHANGED <<candidate, verdict, schemaValid, schemaAfter,
                   sanitizerVars, fillerVars, parserVars, handlerVars,
                   concurrentVars>>

\* validatePDFFields(pdfFields)
ValidateSchema ==
    /\ schema.st = "ok"
    /\ schemaValid = NotRun
    /\ schemaValid' = validatePDFFields(asArray(schema.val))
    /\ UNCHANGED <<candidate, verdict, schema, schemaAfter, sanitizerVars,
                   fillerVars, parserVars, handlerVars,
                   concurrentVars>>

\* fillPDFFields(pdfBuffer, values) on the document the schema was read from
FillForm ==
    /\ impl \in Implementations
    /\ schemaValid # NotRun
    /\ filled = NotRun
    /\ filled' = fillPDFFields(impl, pdf, fillValues)
    /\ UNCHANGED <<impl, pdf, fillValues, schemaVars, sanitizerVars,
                   parserVars, handlerVars,
                   concurrentVars>>

\* extractPDFFields on the bytes fillPDFFields returned
ReExtract ==
    /\ filled.st = "ok"
    /\ schemaAfter = NotRun
    /\ schemaAfter' = extractPDFFields(impl, filled.val)
    /\ UNCHANGED <<candidate, verdict, schema, schemaValid, sanitizerVars,
                   fillerVars, parserVars, handlerVars,
                   concurrentVars>>

NextSchema ==
    \/ ValidateCandidate
    \/ ExtractSchema
    \/ ValidateSchema
    \/ FillForm
    \/ ReExtract

SpecSchema == InitSchema /\ [][NextSchema]_vars

----------------------------------------------------------------------------
(* Properties of the schema extractor and the validation *)

ValidKinds == {"text", "checkbox", "radio", "dropdown", "unknown"}

\* a descriptor with a non-empty name and a kind of the data model
WellFormed(d) ==
    /\ d.t = "object"
    /\ d.v.name.t = "string" /\ d.v.name.v # <<>>
    /\ d.v.type.t = "string" /\ d.v.type.v \in ValidKinds

\* C16: validatePDFFields returns true only for a list whose descriptors all
\* have a non-empty name and a kind among text, checkbox, radio, dropdown,
\* unknown.
C16_ValidateStrict ==
    verdict = Returned(TRUE) =>
        /\ candidate.t = "array"
        /\ \A i \in 1..Len(candidate.v) : WellFormed(candidate.v[i])

\* the kind the data model gives a widget of a structural type
ExpectedKind(w) ==
    IF w.kind \in {"text", "checkbox", "radio", "dropdown"} THEN w.kind
    ELSE "unknown"

\* C17: from a document with at least one widget that pdf-lib loads,
\* extraction returns one descriptor per widget in widget order, name and
\* label the widget's name, kind by structural type (unknown for any other
\* type), maxLength only for a positive length limit; validatePDFFields
\* accepts the list.
C17_ExtractionComplete ==
    /\ (schema # NotRun /\ pdf.loads) => schema.st = "ok"
    /\ (schema.st = "ok" /\ Len(pdf.widgets) >= 1) =>
          /\ Len(schema.val) = Len(pdf.widgets)
          /\ \A i \in 1..Len(pdf.widgets) :
                /\ schema.val[i].name = pdf.widgets[i].name
                /\ schema.val[i].label = pdf.widgets[i].name
                /\ schema.val[i].type = ExpectedKind(pdf.widgets[i])
                /\ schema.val[i].maxLength > 0 =>
                      schema.val[i].maxLength = pdf.widgets[i].maxLength
                /\ (pdf.widgets[i].kind = "text"
                      /\ pdf.widgets[i].maxLength > 0) =>
                      schema.val[i].maxLength = pdf.widgets[i].maxLength
          /\ schemaValid # NotRun => schemaValid = Returned(TRUE)

\* a form with a dropdown, a widget of no supported type and a limited text
\* field was extracted and validated
C17_Witness ==
    /\ schema.st = "ok"
    /\ schemaValid = Returned(TRUE)
    /\ \E i, j, k \in 1..Len(pdf.widgets) :
          /\ pdf.widgets[i].kind = "dropdown"
          /\ pdf.widgets[j].kind = "other"
          /\ schema.val[j].type = "unknown"
          /\ pdf.widgets[k].kind = "text"
          /\ schema.val[k].maxLength > 0

\* the names and kinds of a descriptor list, in order
NamesAndKinds(fieldList) ==
    [i \in 1..Len(fieldList) |-> <<fieldList[i].name, fieldList[i].type>>]

\* C18: the descriptors extracted from the output of fill have the names and
\* kinds, in order, of those extracted from the input; fill changes neither
\* the number, the names nor the structural types of the widgets.
C18_RoundTrip ==
    /\ schemaAfter # NotRun =>
          /\ schemaAfter.st = "ok"
          /\ schema.st = "ok"
          /\ NamesAndKinds(schemaAfter.val) = NamesAndKinds(schema.val)
    /\ (filled.st = "ok" /\ impl # "none") =>
          /\ Len(filled.val.widgets) = Len(pdf.widgets)
          /\ \A i \in 1..Len(pdf.widgets) :
                /\ filled.val.widgets[i].name = pdf.widgets[i].name
                /\ filled.val.widgets[i].kind = pdf.widgets[i].kind

\* the fill changed a value, one of its entries failed, and the schema was
\* read again
C18_Witness ==
    /\ schemaAfter.st = "ok"
    /\ schemaAfter.val # <<>>
    /\ filled.val.widgets # pdf.widgets
    /\ \E i \in 1..Len(fillValues) : FailingEntry(i)

----------------------------------------------------------------------------
(* The stages of the request handlers: fillPdfForm.execute ("tool"), POST   *)
(* of the fill-pdf route ("route") and extractPdfFormSpec.execute ("spec"). *)
(* A message is a string whose literal parts are written as one element.    *)

\* response.ok
responseOk(status) == status >= 200 /\ status <= 299

\* response.statusText
statusText(status) ==
    CASE status = 200 -> "OK"
      [] status = 403 -> "Forbidden"
      [] status = 404 -> "Not Found"
      [] status = 500 -> "Internal Server Error"
      [] OTHER -> ""

\* downloadFailure with a defect: the status code is left out
downloadFailureWithoutStatus(status) ==
    <<"Failed to download PDF: ", statusText(status)>>

\* `Failed to download PDF: ${response.status} ${response.statusText}`
downloadFailure(status) ==
    <<"Failed to download PDF: ">> \o numberToString(status)
        \o <<" ", statusText(status)>>

\* downloadPDFFromUrl(url), given what fetch did: the bytes, or the throw of
\* the catch
downloadPDFFromUrl(fetched) ==
    IF fetched.st = "throw"
    THEN Threw(<<"Error downloading PDF: ">> \o fetched.val)
    ELSE IF ~ responseOk(fetched.val.status)
    THEN Threw(<<"Error downloading PDF: ">>
                 \o downloadFailure(fetched.val.status))
    ELSE Returned(fetched.val.body)

\* extractPDFText with a defect: the failure of pdf-parse is passed on
extractPDFTextOrThrow(parsed) ==
    IF parsed.st = "throw" THEN Threw("Failed to extract PDF text")
    ELSE Returned(parsed.val)

\* extractPDFText(pdfBuffer), given what pdf-parse did: data.text || '',
\* and '' from the catch
extractPDFText(parsed) ==
    IF parsed.st = "throw" THEN Returned(<<>>) ELSE Returned(parsed.val)

\* generateFillFieldsPrompt: the template with its three insertions
generateFillFieldsPrompt(text, fieldList, userInfo) ==
    [variant |-> "fill", pdfText |-> text, fields |-> fieldList,
     userInfo |-> userInfo]

\* generateQuestionSpecPrompt: the template with its three insertions
generateQuestionSpecPrompt(text, fieldList, userInfo) ==
    [variant |-> "questions", pdfText |-> text, fields |-> fieldList,
     userInfo |-> userInfo]

\* a property the result does not have
Absent == [st |-> "absent", val |-> "absent"]

\* a property the result has
Some(x) == [st |-> "some", val |-> x]

\* { success: false, message }; status is the HTTP status of the route, 0
\* for a tool
Failure(status, message) ==
    [success |-> FALSE, status |-> status, message |-> message,
     filledPdfUrl |-> Absent, fields |-> Absent, questionSpec |-> Absent,
     questionsText |-> Absent]

\* { success: true, filledPdfUrl, message, fields }
Filled(status, message, url, fieldMap) ==
    [success |-> TRUE, status |-> status, message |-> message,
     filledPdfUrl |-> Some(url), fields |-> Some(fieldMap),
     questionSpec |-> Absent, questionsText |-> Absent]

\* { success: true, message, questionSpec, questionsText }
Asked(questionSpec, questionsText) ==
    [success |-> TRUE, status |-> 0,
     message |-> <<"Question spec generated.">>,
     filledPdfUrl |-> Absent, fields |-> Absent,
     questionSpec |-> Some(questionSpec),
     questionsText |-> Some(questionsText)]

\* catchError with a defect: the error leaves the handler
rethrowError(which, message) == Threw(message)

\* the catch at the top of each handler
catchError(which, message) ==
    CASE which = "tool" ->
           Returned(Failure(0, <<"Error filling PDF form: ">> \o message))
      [] which = "spec" ->
           Returned(Failure(0, <<"Error generating question spec: ">>
                                 \o message))
      [] OTHER -> Returned(Failure(500, message))

kQuestions == <<"q", "u", "e", "s", "t", "i", "o", "n", "s">>

kQuestion == <<"q", "u", "e", "s", "t", "i", "o", "n">>

kOptions == <<"o", "p", "t", "i", "o", "n", "s">>

kLength == <<"l", "e", "n", "g", "t", "h">>

kName == <<"n", "a", "m", "e">>

\* x[key] of a decoded JSON value
property(x, key) ==
    CASE x.t = "object" -> IF HasKey(x.v, key) THEN ValueAt(x.v, key)
                           ELSE Undefined
      [] x.t \in {"array", "string"} ->
           IF key = kLength THEN JNum(Len(x.v)) ELSE Undefined
      [] OTHER -> Undefined

\* questionSpec?.questions?.length as a condition
hasQuestions(questionSpec) ==
    LET questions == IF questionSpec.t = "null" THEN Undefined
                     ELSE property(questionSpec, kQuestions)
    IN  IF questions.t \in {"null", "undefined"} THEN FALSE
        ELSE Truthy(property(questions, kLength))

\* q => (q.question || '').trim().length > 0: the verdict, or the TypeError
keepsQuestion(q) ==
    IF q.t = "null"
    THEN Threw("TypeError: Cannot read properties of null")
    ELSE LET question == property(q, kQuestion)
         IN  IF Truthy(question) /\ question.t # "string"
             THEN Threw("TypeError: trim is not a function")
             ELSE Returned(Truthy(question) /\ trim(question.v) # <<>>)

\* .filter(...) from question i on: the questions kept, or the TypeError
RECURSIVE filterQuestions(_, _)
filterQuestions(questions, i) ==
    IF i > Len(questions) THEN Returned(<<>>)
    ELSE LET keeps == keepsQuestion(questions[i])
             rest == IF keeps.st = "throw" THEN keeps
                     ELSE filterQuestions(questions, i + 1)
         IN  IF rest.st = "throw" THEN rest
             ELSE Returned((IF keeps.val THEN <<questions[i]>> ELSE <<>>)
                           \o rest.val)

\* the callback of map: the line of a kept question (its options and
\* prefill are left out of the line), or the TypeError of options.join
questionLine(q) ==
    LET options == property(q, kOptions)
    IN  IF /\ Truthy(options)
           /\ Truthy(property(options, kLength))
           /\ options.t # "array"
        THEN Threw("TypeError: q.options.join is not a function")
        ELSE Returned(trim(property(q, kQuestion).v))

\* .map(...) from question i on
RECURSIVE mapQuestions(_, _)
mapQuestions(questions, i) ==
    IF i > Len(questions) THEN Returned(<<>>)
    ELSE LET line == questionLine(questions[i])
             rest == IF line.st = "throw" THEN line
                     ELSE mapQuestions(questions, i + 1)
         IN  IF rest.st = "throw" THEN rest
             ELSE Returned(<<line.val>> \o rest.val)

\* the lines of questionsText, or the TypeError
questionsTextOf(questionSpec) ==
    LET questions == property(questionSpec, kQuestions)
    IN  IF questions.t # "array"
        THEN Threw("TypeError: questions.filter is not a function")
        ELSE LET kept == filterQuestions(questions.v, 1)
             IN  IF kept.st = "throw" THEN kept
                 ELSE mapQuestions(kept.val, 1)

----------------------------------------------------------------------------
(* The request handlers as a state machine *)

Handlers == {"route", "tool", "spec"}

kUrl == <<"u", "r", "l">>

kUserInfo == <<"J", "o">>

\* what the caller sends; only the route has a session to check
Requests(which) ==
    [session : IF which = "route" THEN {"user", "none"} ELSE {"user"},
     pdfUrl : {<<>>, kUrl},
     userInfo : {<<>>, kUserInfo}]

\* HTTP statuses the download URL may answer with
Statuses == {200, 403, 404, 500}

\* the form of the scenarios, one widget of every kind, the checkbox checked
\* and the groups preselected
W9 == FormWidgets(TRUE, TRUE, <<>>)

\* the documents a URL may serve
ServedDocuments ==
    {Document(TRUE, TRUE, W9),
     Document(TRUE, TRUE, FormWidgets(FALSE, FALSE, kStatus)),
     Document(TRUE, TRUE, <<>>),
     Document(FALSE, TRUE, <<>>),
     Document(TRUE, FALSE, W9),
     EncryptedDocument(W9)}

\* what fetch may do: fail, or answer with a status and a body
Fetches ==
    {Threw(<<"fetch failed">>)}
      \cup {Returned([status |-> 200, body |-> d]) : d \in ServedDocuments}
      \cup {Returned([status |-> s, body |-> Document(FALSE, TRUE, <<>>)]) :
               s \in Statuses \ {200}}

\* what pdf-parse may do
PdfParses ==
    {Threw("bad XRef entry"), Returned(<<>>), Returned(<<"W", "-", "9">>)}

\* a sentence of the model, as characters
Sorry ==
    <<"S", "o", "r", "r", "y", ",", " ", "n", "o", " ", "d", "a", "t", "a",
      ".">>

ICannot == <<"I", " ", "c", "a", "n", "n", "o", "t">>

\* answers in prose, without a brace: bare, and inside a fence
ProseReplies ==
    {Sorry, ICannot,
     Fence \o kJson \o <<"\n">> \o ICannot \o <<"\n">> \o Fence,
     Fence \o <<"\n">> \o Sorry \o <<"\n">> \o Fence}

\* value maps the model may answer with
FieldValueObjects ==
    {JObj(<<<<kFullName, JStr(<<"a">>)>>, <<kIsLlc, JStr(kYes)>>>>),
     JObj(<<<<kStatus, JStr(<<"X">>)>>, <<kSignature, JStr(<<"a">>)>>,
            <<kState, JStr(optS)>>>>),
     JObj(<<<<kFullName, JStr(TooLong)>>, <<kGhostField, JStr(<<"x">>)>>>>),
     JObj(<<<<kIsLlc, JBool(FALSE)>>, <<kStatus, JStr(optS)>>>>),
     JObj(<<>>)}

\* JSON values that are no object
NonObjects ==
    {JArr(<<>>), JArr(<<JStr(<<"a">>)>>), JStr(<<"h", "i">>), JNum(12),
     JBool(TRUE), JNull}

Question(name, question) ==
    JObj(<<<<kName, JStr(name)>>, <<kQuestion, JStr(question)>>>>)

\* question specs the model may answer with
QuestionSpecObjects ==
    {JObj(<<<<kQuestions,
              JArr(<<Question(kFullName, <<" ", "N", "a", "m", "e", "?">>),
                     Question(kIsLlc, <<>>)>>)>>>>),
     JObj(<<<<kQuestions,
              JArr(<<Question(kGhostField, <<"W", "h", "o", "?">>)>>)>>>>),
     JObj(<<<<kQuestions, JArr(<<>>)>>>>),
     JObj(<<<<kQuestions, JStr(<<"a", "b", "c">>)>>>>),
     JObj(<<<<kQuestions, JArr(<<JNull>>)>>>>),
     JObj(<<<<kQuestions,
              JArr(<<JObj(<<<<kQuestion, JNum(12)>>>>)>>)>>>>)}

\* aiResponse.text
Replies ==
    ProseReplies
      \cup {render(x, FALSE) :
               x \in FieldValueObjects \cup NonObjects
                       \cup QuestionSpecObjects}
      \cup {Fence \o kJson \o <<"\n">> \o render(x, FALSE) \o <<"\n">> \o Fence :
               x \in {JObj(<<<<kFullName, JStr(<<"a">>)>>>>), JArr(<<>>)}}

\* what generateText may do
Generations == {Threw(<<"model unavailable">>)} \cup {Returned(r) : r \in Replies}

kBlobUrl == <<"b", "l", "o", "b">>

\* what put may do
Puts == {Threw(<<"upload failed">>), Returned(kBlobUrl)}

\* a call to a collaborator: fetch, pdfParse, load (PDFDocument.load of the
\* field extraction), generateText or put
Call(op, succeeded, code) == [op |-> op, ok |-> succeeded, code |-> code]

InitHandler ==
    /\ handler \in Handlers
    /\ request \in Requests(handler)
    /\ pc = "start"
    /\ calls = <<>>
    /\ pdfBuffer = NotRun
    /\ pdfText = NotRun
    /\ pdfFields = NotRun
    /\ prompt = NotRun
    /\ aiResponse = NotRun
    /\ parsedResponse = NotRun
    /\ sanitizedValues = NotRun
    /\ filledPdfBuffer = NotRun
    /\ response = NotRun
    /\ IdleSanitizer
    /\ IdleFiller
    /\ IdleParser
    /\ IdleSchema
    /\ IdleConcurrent

\* the handler ends with the result `outcome`
Return(outcome) ==
    /\ response' = outcome
    /\ pc' = "done"

\* an error thrown inside the try block reaches the catch of the handler
Throw(message) == Return(catchError(handler, message))

\* the stage succeeded: the handler goes on with stage `next`
Goto(next) ==
    /\ pc' = next
    /\ UNCHANGED response

others ==
    <<sanitizerVars, fillerVars, parserVars, schemaVars, concurrentVars>>

\* CheckRequest with a defect: the route does not look at the session
CheckRequestWithoutSession ==
    /\ pc = "start"
    /\ IF request.pdfUrl = <<>> \/ request.userInfo = <<>>
       THEN IF handler = "route"
            THEN Return(Returned(Failure(400,
                     <<"Missing required fields: pdfUrl and userInfo">>)))
            ELSE Throw(<<"parameter is required but was not provided">>)
       ELSE Goto("download")
    /\ UNCHANGED <<handler, request, calls, pdfBuffer, pdfText, pdfFields,
                   prompt, aiResponse, parsedResponse, sanitizedValues,
                   filledPdfBuffer, others>>

\* the checks before the download: the session and the body of the route,
\* the parameters of the tools
CheckRequest ==
    /\ pc = "start"
    /\ CASE handler = "route" ->
              IF request.session = "none"
              THEN Return(Returned(Failure(401, <<"Unauthorized">>)))
              ELSE IF request.pdfUrl = <<>> \/ request.userInfo = <<>>
              THEN Return(Returned(Failure(400,
                       <<"Missing required fields: pdfUrl and userInfo">>)))
              ELSE Goto("download")
         [] handler = "tool" ->
              IF request.pdfUrl = <<>>
              THEN Throw(<<"pdfUrl parameter is required but was not provided">>)
              ELSE IF request.userInfo = <<>>
              THEN Throw(<<"userInfo parameter is required but was not provided">>)
              ELSE Goto("download")
         [] OTHER ->
              IF request.pdfUrl = <<>>
              THEN Throw(<<"pdfUrl parameter is required but was not provided">>)
              ELSE Goto("download")
    /\ UNCHANGED <<handler, request, calls, pdfBuffer, pdfText, pdfFields,
                   prompt, aiResponse, parsedResponse, sanitizedValues,
                   filledPdfBuffer, others>>

\* const pdfBuffer = await downloadPDFFromUrl(pdfUrl)
Download ==
    /\ pc = "download"
    /\ \E fetched \in Fetches :
          LET downloaded == downloadPDFFromUrl(fetched)
          IN  /\ calls' = Append(calls,
                     Call("fetch", fetched.st = "ok",
                          IF fetched.st = "ok" THEN fetched.val.status ELSE 0))
              /\ pdfBuffer' = downloaded
              /\ IF downloaded.st = "throw" THEN Throw(downloaded.val)
                 ELSE Goto("extract")
    /\ UNCHANGED <<handler, request, pdfText, pdfFields, prompt, aiResponse,
                   parsedResponse, sanitizedValues, filledPdfBuffer, others>>

\* extractPDFText(pdfBuffer), one of the two promises of Promise.all
ExtractText ==
    /\ pc = "extract"
    /\ pdfText = NotRun
    /\ \E parsed \in PdfParses :
          /\ calls' = Append(calls, Call("pdfParse", parsed.st = "ok", 0))
          /\ pdfText' = extractPDFText(parsed)
    /\ UNCHANGED <<handler, request, pc, pdfBuffer, pdfFields, prompt,
                   aiResponse, parsedResponse, sanitizedValues,
                   filledPdfBuffer, response, others>>

\* extractPDFFields(pdfBuffer), the other promise of Promise.all
ExtractFields ==
    /\ pc = "extract"
    /\ pdfFields = NotRun
    /\ LET extracted == extractPDFFields(handler, pdfBuffer.val)
       IN  /\ calls' = Append(calls, Call("load", extracted.st = "ok", 0))
           /\ pdfFields' = extracted
    /\ UNCHANGED <<handler, request, pc, pdfBuffer, pdfText, prompt,
                   aiResponse, parsedResponse, sanitizedValues,
                   filledPdfBuffer, response, others>>

\* AwaitExtraction with a defect: only the field extraction is awaited
AwaitFieldsOnly ==
    /\ pc = "extract"
    /\ pdfFields # NotRun
    /\ IF pdfFields.st = "throw" THEN Throw(<<pdfFields.val>>)
       ELSE Goto("validate")
    /\ UNCHANGED <<handler, request, calls, pdfBuffer, pdfText, pdfFields,
                   prompt, aiResponse, parsedResponse, sanitizedValues,
                   filledPdfBuffer, others>>

\* const [pdfText, pdfFields] = await Promise.all([...]): rejected as soon as
\* one promise is, fulfilled when both are
AwaitExtraction ==
    /\ pc = "extract"
    /\ \/ pdfFields.st = "throw"
       \/ pdfText.st = "throw"
       \/ pdfFields.st = "ok" /\ pdfText.st = "ok"
    /\ IF pdfFields.st = "throw" THEN Throw(<<pdfFields.val>>)
       ELSE IF pdfText.st = "throw" THEN Throw(<<pdfText.val>>)
       ELSE Goto("validate")
    /\ UNCHANGED <<handler, request, calls, pdfBuffer, pdfText, pdfFields,
                   prompt, aiResponse, parsedResponse, sanitizedValues,
                   filledPdfBuffer, others>>

\* if (!validatePDFFields(pdfFields)) ...
ValidateFields ==
    /\ pc = "validate"
    /\ LET valid == validatePDFFields(asArray(pdfFields.val))
       IN  IF valid.st = "throw" THEN Throw(<<valid.val>>)
           ELSE IF valid.val THEN Goto("prompt")
           ELSE CASE handler = "route" ->
                       Return(Returned(Failure(400,
                                <<"Invalid PDF fields extracted">>)))
                  [] handler = "tool" ->
                       Throw(<<"Invalid PDF fields extracted">>)
                  [] OTHER ->
                       Throw(<<"Invalid or empty PDF fields extracted">>)
    /\ UNCHANGED <<handler, request, calls, pdfBuffer, pdfText, pdfFields,
                   prompt, aiResponse, parsedResponse, sanitizedValues,
                   filledPdfBuffer, others>>

\* const prompt = generateFillFieldsPrompt(pdfText, pdfFields, userInfo), or
\* generateQuestionSpecPrompt of the extractPdfFormSpec tool
BuildPrompt ==
    /\ pc = "prompt"
    /\ prompt' = IF handler = "spec"
                 THEN generateQuestionSpecPrompt(pdfText.val, pdfFields.val,
                                                 request.userInfo)
                 ELSE generateFillFieldsPrompt(pdfText.val, pdfFields.val,
                                               request.userInfo)
    /\ Goto("model")
    /\ UNCHANGED <<handler, request, calls, pdfBuffer, pdfText, pdfFields,
                   aiResponse, parsedResponse, sanitizedValues,
                   filledPdfBuffer, others>>

\* GenerateText with a defect: a failed model call is made once more
GenerateTextWithRetry ==
    /\ pc = "model"
    /\ \E generated \in Generations :
          /\ calls' = Append(calls, Call("generateText", generated.st = "ok", 0))
          /\ aiResponse' = generated
          /\ IF generated.st = "ok" THEN Goto("parse")
             ELSE IF aiResponse = NotRun THEN Goto("model")
             ELSE Throw(generated.val)
    /\ UNCHANGED <<handler, request, pdfBuffer, pdfText, pdfFields, prompt,
                   parsedResponse, sanitizedValues, filledPdfBuffer, others>>

\* const aiResponse = await generateText({ model, prompt, temperature: 0 })
GenerateText ==
    /\ pc = "model"
    /\ \E generated \in Generations :
          /\ calls' = Append(calls, Call("generateText", generated.st = "ok", 0))
          /\ aiResponse' = generated
          /\ IF generated.st = "throw" THEN Throw(generated.val)
             ELSE Goto("parse")
    /\ UNCHANGED <<handler, request, pdfBuffer, pdfText, pdfFields, prompt,
                   parsedResponse, sanitizedValues, filledPdfBuffer, others>>

\* "Parse AI response": cleanAIResponse and JSON.parse in the fill handlers
\* (the route answers 500 itself, the tool throws to its catch),
\* extractJsonObject and JSON.parse in the extractPdfFormSpec tool
ParseResponse ==
    /\ pc = "parse"
    /\ LET decoded == IF handler = "spec"
                      THEN parseQuestionSpec(aiResponse.val)
                      ELSE parseFieldValues(aiResponse.val)
       IN  /\ parsedResponse' = decoded
           /\ IF decoded.st = "ok"
              THEN Goto(IF handler = "spec" THEN "questions" ELSE "sanitize")
              ELSE IF handler = "route"
              THEN Return(Returned(Failure(500, <<decoded.val>>)))
              ELSE Throw(<<decoded.val>>)
    /\ UNCHANGED <<handler, request, calls, pdfBuffer, pdfText, pdfFields,
                   prompt, aiResponse, sanitizedValues, filledPdfBuffer,
                   others>>

\* extractPdfFormSpec.execute from "if (!questionSpec?.questions?.length)"
\* to its return
BuildQuestions ==
    /\ pc = "questions"
    /\ IF ~ hasQuestions(parsedResponse.val)
       THEN Throw(<<"Model returned no questions">>)
       ELSE LET questionsText == questionsTextOf(parsedResponse.val)
            IN  IF questionsText.st = "throw"
                THEN Throw(<<questionsText.val>>)
                ELSE Return(Returned(Asked(parsedResponse.val,
                                           questionsText.val)))
    /\ UNCHANGED <<handler, request, calls, pdfBuffer, pdfText, pdfFields,
                   prompt, aiResponse, parsedResponse, sanitizedValues,
                   filledPdfBuffer, others>>

\* const sanitizedValues = sanitizeFieldValues(fieldValues, pdfFields)
SanitizeValues ==
    /\ pc = "sanitize"
    /\ LET cleaned == sanitizeFieldValues(parsedResponse.val, pdfFields.val)
       IN  /\ sanitizedValues' = cleaned
           /\ IF cleaned.st = "throw" THEN Throw(<<cleaned.val>>)
              ELSE Goto("fill")
    /\ UNCHANGED <<handler, request, calls, pdfBuffer, pdfText, pdfFields,
                   prompt, aiResponse, parsedResponse, filledPdfBuffer,
                   others>>

\* FillDocument with a defect: the filler is handed the map the model wrote
FillDocumentWithRawValues ==
    /\ pc = "fill"
    /\ LET raw == parsedResponse.val
           given == IF /\ raw.t = "object"
                       /\ \A i \in 1..Len(raw.v) : raw.v[i][2].t = "string"
                    THEN [i \in 1..Len(raw.v) |-> <<raw.v[i][1], raw.v[i][2].v>>]
                    ELSE sanitizedValues.val
           done == fillPDFFields(handler, pdfBuffer.val, given)
       IN  /\ filledPdfBuffer' = done
           /\ IF done.st = "throw" THEN Throw(<<done.val>>)
              ELSE Goto("upload")
    /\ UNCHANGED <<handler, request, calls, pdfBuffer, pdfText, pdfFields,
                   prompt, aiResponse, parsedResponse, sanitizedValues,
                   others>>

\* const filledPdfBuffer = await fillPDFFields(pdfBuffer, sanitizedValues)
FillDocument ==
    /\ pc = "fill"
    /\ LET done == fillPDFFields(handler, pdfBuffer.val, sanitizedValues.val)
       IN  /\ filledPdfBuffer' = done
           /\ IF done.st = "throw" THEN Throw(<<done.val>>)
              ELSE Goto("upload")
    /\ UNCHANGED <<handler, request, calls, pdfBuffer, pdfText, pdfFields,
                   prompt, aiResponse, parsedResponse, sanitizedValues,
                   others>>

\* const blob = await put(filename, filledPdfBuffer, ...) and the return of
\* the result
Upload ==
    /\ pc = "upload"
    /\ \E blob \in Puts :
          /\ calls' = Append(calls, Call("put", blob.st = "ok", 0))
          /\ IF blob.st = "throw" THEN Throw(blob.val)
             ELSE Return(Returned(
                      IF handler = "route"
                      THEN Filled(200, <<"PDF form filled successfully!">>,
                                  blob.val, sanitizedValues.val)
                      ELSE Filled(0,
                               <<"Form filled successfully! The filled PDF is available at: ">>
                                 \o blob.val,
                               blob.val, sanitizedValues.val)))
    /\ UNCHANGED <<handler, request, pdfBuffer, pdfText, pdfFields, prompt,
                   aiResponse, parsedResponse, sanitizedValues,
                   filledPdfBuffer, others>>

NextHandler ==
    \/ CheckRequest
    \/ Download
    \/ ExtractText
    \/ ExtractFields
    \/ AwaitExtraction
    \/ ValidateFields
    \/ BuildPrompt
    \/ GenerateText
    \/ ParseResponse
    \/ BuildQuestions
    \/ SanitizeValues
    \/ FillDocument
    \/ Upload

SpecHandler == InitHandler /\ [][NextHandler]_vars

----------------------------------------------------------------------------
(* Properties of the request handlers *)

\* a collaborator was called
Called(op) == \E i \in 1..Len(calls) : calls[i].op = op

\* the handler returned a result with success = false
ReturnedFailure == response.st = "ok" /\ ~ response.val.success

\* the handler returned a result with success = true
ReturnedSuccess == response.st = "ok" /\ response.val.success

\* the text p occurs in the text s
Contains(s, p) == \E i \in 1..Len(s) : matchesAt(s, i, p)

\* C11: when the model answers in prose without a brace, each of the three
\* handlers returns success = false without a fields map, and no document
\* is filled or uploaded.
C11_ProseFails ==
    (/\ aiResponse.st = "ok"
     /\ aiResponse.val \in ProseReplies
     /\ pc # "parse")
        => /\ pc = "done"
           /\ ReturnedFailure
           /\ response.val.fields = Absent
           /\ sanitizedValues = NotRun
           /\ filledPdfBuffer = NotRun
           /\ ~ Called("put")

\* the route answered a fenced sentence of prose with a failure
C11_Witness ==
    /\ handler = "route"
    /\ aiResponse.st = "ok"
    /\ aiResponse.val \in ProseReplies
    /\ startsWith(aiResponse.val, Fence)
    /\ ReturnedFailure
    /\ response.val.status = 500

\* C12: when the model's answer is undecodable, or decodes to anything but
\* a JSON object, the fill handlers return success = false; they never
\* return success = true with a fields map built from such an answer.
C12_NoDefaultMap ==
    (/\ handler \in {"route", "tool"}
     /\ pc = "done"
     /\ \/ parsedResponse.st = "throw"
        \/ parsedResponse.st = "ok" /\ parsedResponse.val.t # "object")
        => ReturnedFailure

\* a stage of the handler failed
StageFailed ==
    \/ pdfBuffer.st = "throw"
    \/ pdfFields.st = "throw"
    \/ aiResponse.st = "throw"
    \/ parsedResponse.st = "throw"
    \/ sanitizedValues.st = "throw"
    \/ filledPdfBuffer.st = "throw"
    \/ \E i \in 1..Len(calls) : calls[i].op = "put" /\ ~ calls[i].ok

\* C13: no exception leaves a handler, and once a stage (download, field
\* extraction, model call, response parse, sanitize, fill, upload) has
\* failed, no later stage runs and the result is success = false with a
\* message and without filledPdfUrl and fields.
C13_UniformFailure ==
    /\ response.st # "throw"
    /\ StageFailed =>
          /\ pc \in {"extract", "done"}
          /\ pc = "done" =>
                /\ ReturnedFailure
                /\ response.val.message # <<>>
                /\ response.val.filledPdfUrl = Absent
                /\ response.val.fields = Absent

\* the sanitizer threw inside the fillPdfForm tool, which returned a failure
C13_Witness ==
    /\ handler = "tool"
    /\ sanitizedValues.st = "throw"
    /\ ReturnedFailure
    /\ response.val.fields = Absent

\* call i is a download that was answered with a status outside 200..299
RefusedDownload(i) ==
    /\ calls[i].op = "fetch"
    /\ calls[i].ok
    /\ (calls[i].code < 200 \/ calls[i].code > 299)

\* C14: when the download URL answers with a status outside 2xx, the handler
\* returns success = false with a message that contains the status code,
\* runs no extraction, model call, fill or upload, and throws nothing.
C14_DownloadStatus ==
    \A i \in 1..Len(calls) :
        RefusedDownload(i) =>
            /\ pc = "done"
            /\ ReturnedFailure
            /\ Contains(response.val.message, numberToString(calls[i].code))
            /\ Len(calls) = 1
            /\ pdfText = NotRun
            /\ pdfFields = NotRun
            /\ prompt = NotRun
            /\ aiResponse = NotRun
            /\ filledPdfBuffer = NotRun

\* the URL answered 404 and the message holds "404"
C14_Witness ==
    /\ Len(calls) = 1
    /\ calls[1] = Call("fetch", TRUE, 404)
    /\ ReturnedFailure
    /\ Contains(response.val.message, <<"4", "0", "4">>)

\* C15: when field extraction returns no descriptor, the handler returns
\* success = false without building a prompt or calling the model.
C15_EmptySchemaFatal ==
    pdfFields = Returned(<<>>) =>
        /\ prompt = NotRun
        /\ ~ Called("generateText")
        /\ pc = "done" => ReturnedFailure

\* the widget called `name` of the filled document holds `value`
Holds(name, value) ==
    /\ HasWidget(filledPdfBuffer.val.widgets, name)
    /\ LET w == filledPdfBuffer.val.widgets[
                    WidgetIndex(filledPdfBuffer.val.widgets, name)]
       IN  CASE w.kind = "text" -> w.text = value
             [] w.kind = "checkbox" ->
                  w.checked = (toLowerCase(value) \in TruthTableWords)
             [] w.kind \in {"radio", "dropdown"} -> w.selected = <<value>>
             [] OTHER -> FALSE

\* C19: in a result with success = true, every entry of the fields map was
\* applied to the document; an entry that was skipped or whose fill failed
\* is not in the map.
C19_OnlyAppliedFields ==
    (ReturnedSuccess /\ handler \in {"route", "tool"}) =>
        \A i \in 1..Len(response.val.fields.val) :
            Holds(response.val.fields.val[i][1], response.val.fields.val[i][2])

\* pdf-parse failed
TextFailed ==
    \E i \in 1..Len(calls) : calls[i].op = "pdfParse" /\ ~ calls[i].ok

\* C20: when pdf-parse fails, extractPDFText returns the empty string; if
\* field extraction succeeds the handler is not aborted before the prompt,
\* and the prompt is built with the empty text and the extracted fields.
C20_TextDegrades ==
    TextFailed =>
        /\ pdfText = Returned(<<>>)
        /\ pdfFields.st = "ok" =>
              /\ pc = "done" => prompt # NotRun
              /\ prompt # NotRun =>
                    /\ prompt.pdfText = <<>>
                    /\ prompt.fields = pdfFields.val

\* text extraction failed, and the form was filled and uploaded all the same
C20_Witness ==
    /\ TextFailed
    /\ pdfFields.st = "ok"
    /\ pdfFields.val # <<>>
    /\ prompt # NotRun
    /\ prompt.pdfText = <<>>
    /\ ReturnedSuccess
    /\ response.val.filledPdfUrl # Absent

----------------------------------------------------------------------------
(* Properties of the returned question spec and of the order of the stages *)

\* the names of the descriptors extracted by the handler
ExtractedNames == {pdfFields.val[j].name : j \in 1..Len(pdfFields.val)}

\* the entries of the questionSpec in a result of the extractPdfFormSpec tool
ReturnedQuestions == property(response.val.questionSpec.val, kQuestions).v

\* C21: every entry of the questionSpec that extractPdfFormSpec returns with
\* success = true names a descriptor extracted from the PDF.
C21_QuestionsNameFields ==
    (handler = "spec" /\ ReturnedSuccess) =>
        \A i \in 1..Len(ReturnedQuestions) :
            LET name == property(ReturnedQuestions[i], kName)
            IN  /\ name.t = "string"
                /\ name.v \in ExtractedNames

\* the number of calls of the collaborator `op`
CallCount(op) == Cardinality({i \in 1..Len(calls) : calls[i].op = op})

\* the download was answered with a 2xx status
Downloaded ==
    \E i \in 1..Len(calls) :
        /\ calls[i].op = "fetch"
        /\ calls[i].ok
        /\ calls[i].code >= 200
        /\ calls[i].code <= 299

\* the parameters pass the checks of the handler
ValidRequest ==
    /\ request.pdfUrl # <<>>
    /\ handler # "spec" => request.userInfo # <<>>
    /\ request.session = "user"

\* C22: the text-generation model is called at most once in a run of a
\* handler, and only after the parameters were accepted, the download was
\* answered with success and the fields were extracted and accepted.
C22_AtMostOneModelCall ==
    /\ CallCount("generateText") <= 1
    /\ Called("generateText") =>
          /\ ValidRequest
          /\ Downloaded
          /\ pdfBuffer.st = "ok"
          /\ pdfFields.st = "ok"
          /\ \A i \in 1..Len(pdfFields.val) :
                /\ pdfFields.val[i].name \in Seq(STRING)
                /\ pdfFields.val[i].type \in STRING
          /\ prompt # NotRun

\* the one model call failed and the handler returned its failure
C22_Witness ==
    /\ CallCount("generateText") = 1
    /\ aiResponse.st = "throw"
    /\ ReturnedFailure

\* the field extraction finished before the text extraction
FieldsFirst ==
    \E i, j \in 1..Len(calls) :
        i < j /\ calls[i].op = "load" /\ calls[j].op = "pdfParse"

\* C23: in every order of completion of the two extractions, the prompt is
\* built only after both have completed, from their two results and the user
\* information alone; a failed field extraction leaves no prompt and no model
\* call, whether the text extraction has finished or not.
C23_BothBeforePrompt ==
    /\ prompt # NotRun =>
          /\ pdfText.st = "ok"
          /\ pdfFields.st = "ok"
          /\ CallCount("pdfParse") = 1
          /\ CallCount("load") = 1
          /\ prompt.pdfText = pdfText.val
          /\ prompt.fields = pdfFields.val
          /\ prompt.userInfo = request.userInfo
    /\ pdfFields.st = "throw" =>
          /\ prompt = NotRun
          /\ aiResponse = NotRun
          /\ pc \in {"extract", "done"}
          /\ pc = "done" => ReturnedFailure

\* the fields were extracted first, the text second, and the prompt holds both
C23_Witness ==
    /\ FieldsFirst
    /\ prompt # NotRun
    /\ prompt.pdfText # <<>>
    /\ prompt.fields # <<>>

\* the place of a collaborator call in the order of the stages
StageRank(op) ==
    CASE op = "fetch" -> 1
      [] op \in {"pdfParse", "load"} -> 2
      [] op = "generateText" -> 3
      [] OTHER -> 4

\* the upload completed
Uploaded == \E i \in 1..Len(calls) : calls[i].op = "put" /\ calls[i].ok

\* C25: in a run of a fill handler the stages happen in the order download,
\* the two extractions, prompt, model call, parse, sanitize, fill, upload,
\* each only after the earlier ones succeeded; the filler is handed the
\* sanitizer's output; there is at most one upload; and the result is
\* success = true with a filledPdfUrl exactly when the upload completed.
C25_StageOrder ==
    handler \in {"route", "tool"} =>
        /\ \A i, j \in 1..Len(calls) :
              i < j => StageRank(calls[i].op) <= StageRank(calls[j].op)
        /\ (pdfText # NotRun \/ pdfFields # NotRun) => pdfBuffer.st = "ok"
        /\ prompt # NotRun => (pdfText.st = "ok" /\ pdfFields.st = "ok")
        /\ aiResponse # NotRun => prompt # NotRun
        /\ parsedResponse # NotRun => aiResponse.st = "ok"
        /\ sanitizedValues # NotRun => parsedResponse.st = "ok"
        /\ filledPdfBuffer # NotRun =>
              /\ sanitizedValues.st = "ok"
              /\ filledPdfBuffer =
                    fillPDFFields(handler, pdfBuffer.val, sanitizedValues.val)
        /\ Called("put") => filledPdfBuffer.st = "ok"
        /\ CallCount("fetch") <= 1
        /\ CallCount("put") <= 1
        /\ pc = "done" =>
              ((ReturnedSuccess /\ response.val.filledPdfUrl # Absent)
                  <=> Uploaded)
        /\ pc # "done" => ~ Uploaded

\* a run through every stage whose model map differs from the sanitized one
C25_Witness ==
    /\ handler \in {"route", "tool"}
    /\ Uploaded
    /\ ReturnedSuccess
    /\ sanitizedValues.val # <<>>
    /\ parsedResponse.val # asObject(sanitizedValues.val)

\* no stage of the handler has run
NothingDone ==
    /\ calls = <<>>
    /\ pdfBuffer = NotRun
    /\ pdfText = NotRun
    /\ pdfFields = NotRun
    /\ prompt = NotRun
    /\ aiResponse = NotRun
    /\ parsedResponse = NotRun
    /\ sanitizedValues = NotRun
    /\ filledPdfBuffer = NotRun

C26_FrameOfFill ==
    (handler \in {"route", "tool"} /\ filledPdfBuffer.st = "ok") =>
        /\ Len(filledPdfBuffer.val.widgets) = Len(pdfBuffer.val.widgets)
        /\ \A i \in 1..Len(pdfBuffer.val.widgets) :
              pdfBuffer.val.widgets[i].name \notin KeysOf(sanitizedValues.val)
                 => filledPdfBuffer.val.widgets[i] = pdfBuffer.val.widgets[i]

\* the model wrote false for a checked checkbox: the sanitizer dropped the
\* entry, the fill changed another field, and the checkbox is still checked
C26_Witness ==
    /\ filledPdfBuffer.st = "ok"
    /\ parsedResponse.val.t = "object"
    /\ HasKey(parsedResponse.val.v, kIsLlc)
    /\ kIsLlc \notin KeysOf(sanitizedValues.val)
    /\ filledPdfBuffer.val # pdfBuffer.val
    /\ \E i \in 1..Len(pdfBuffer.val.widgets) :
          /\ pdfBuffer.val.widgets[i].name = kIsLlc
          /\ pdfBuffer.val.widgets[i].checked
          /\ filledPdfBuffer.val.widgets[i].checked

----------------------------------------------------------------------------
(* Further properties of the sanitizer, the extractors and the parser *)

\* C27: every value of the map sanitizeFieldValues returns is a non-empty
\* string without leading or trailing whitespace.
C27_ValuesTrimmedNonEmpty ==
    sanitized.st = "ok" =>
        \A i \in 1..Len(sanitized.val) :
            /\ sanitized.val[i][2] # <<>>
            /\ trim(sanitized.val[i][2]) = sanitized.val[i][2]

\* C28: on every document, encrypted ones included, extractPDFFields of the
\* extractPdfFormSpec tool and extractPDFFields of the fill handlers both
\* fail or both return the same descriptors, and a document the tool read
\* can be loaded by the filler.
C28_ExtractorsAgree ==
    schema # NotRun =>
        /\ \A other \in {"spec", "tool", "route"} :
              LET answer == extractPDFFields(other, pdf)
              IN  \/ schema.st = "throw" /\ answer.st = "throw"
                  \/ schema.st = "ok" /\ answer = schema
        /\ (impl = "spec" /\ schema.st = "ok") =>
              fillPDFFields("tool", pdf, <<>>)
                  # Threw("Failed to fill PDF fields: load")

\* the keys and string values of a JSON value, at every depth
RECURSIVE StringsIn(_)
StringsIn(x) ==
    CASE x.t = "string" -> {x.v}
      [] x.t = "array" -> UNION {StringsIn(x.v[i]) : i \in 1..Len(x.v)}
      [] x.t = "object" ->
           UNION {{x.v[i][1]} \cup StringsIn(x.v[i][2]) : i \in 1..Len(x.v)}
      [] OTHER -> {}

\* C29: the keys and string values of the object that extractJsonObject and
\* JSON.parse decode are those written in the model's text, also when they
\* hold the words True or False or a brace.
C29_StringsUntouched ==
    specParsed.st = "ok" => StringsIn(specParsed.val) = StringsIn(sourceJson)

----------------------------------------------------------------------------
(* Two fill requests in flight at once: fillPdfForm.execute and POST from   *)
(* "Sanitize field values" to the return of the result.  Each invocation    *)
(* has its own locals; the clock of new Date() and the blob storage are     *)
(* what the invocations share.                                              *)

\* the last millisecond the clock reaches
MaxClock == 1

InvocationIds == {1, 2}

kW9 == <<"w", "9">>

\* formType of the request; <<>> when the caller gave none
FormTypes == {<<>>, kW9}

\* what an invocation holds when it reaches the sanitizer: its handler, the
\* formType, the downloaded document and the decoded answer of the model
InvocationInputs ==
    [which : {"route", "tool"},
     formType : FormTypes,
     pdfBuffer : {Document(TRUE, TRUE, W9),
                  Document(TRUE, TRUE, FormWidgets(FALSE, FALSE, kStatus))},
     fieldValues : {JObj(<<<<kFullName, JStr(<<"a">>)>>,
                           <<kIsLlc, JStr(kYes)>>>>),
                    JObj(<<<<kIsLlc, JBool(FALSE)>>,
                           <<kStatus, JStr(optS)>>>>)}]

\* the locals of an invocation that is about to sanitize
Started(input) ==
    [which |-> input.which, formType |-> input.formType,
     pdfBuffer |-> input.pdfBuffer, fieldValues |-> input.fieldValues,
     pc |-> "sanitize", sanitizedValues |-> NotRun,
     filledPdfBuffer |-> NotRun, filename |-> <<>>, response |-> NotRun]

\* new Date().toISOString().replace(/[:.]/g, '-'): one text per millisecond
timestampOf(ms) == numberToString(ms)

\* `filled-form-${formType || 'unknown'}-${timestamp}.pdf`
filenameOf(formType, ms) ==
    <<"filled-form-">>
      \o (IF formType # <<>> THEN formType ELSE <<"unknown">>)
      \o <<"-">> \o timestampOf(ms) \o <<".pdf">>

\* the pathnames the storage holds
StoredNames == {blobStore[k].pathname : k \in 1..Len(blobStore)}

\* how the storage treats a pathname: it appends a random suffix to every
\* pathname, it overwrites the blob of a pathname it holds, or it refuses
\* such a pathname
PutModes == {"suffix", "overwrite", "reject"}

\* put(filename, body): the storage after the call and the pathname of the
\* blob, or the throw
putBlob(store, filename, body, mode) ==
    CASE mode = "suffix" ->
           LET pathname == filename \o <<"-r">>
                             \o numberToString(Len(store) + 1)
           IN  Returned([store |-> Append(store, [pathname |-> pathname,
                                                 body |-> body]),
                         pathname |-> pathname])
      [] (mode = "reject"
            /\ \E k \in 1..Len(store) : store[k].pathname = filename) ->
           Threw(<<"This blob already exists">>)
      [] OTHER ->
           Returned([store |->
                        IF \E k \in 1..Len(store) : store[k].pathname = filename
                        THEN [k \in 1..Len(store) |->
                                 IF store[k].pathname = filename
                                 THEN [pathname |-> filename, body |-> body]
                                 ELSE store[k]]
                        ELSE Append(store, [pathname |-> filename,
                                            body |-> body]),
                     pathname |-> filename])

\* blob.url of a stored pathname
urlOf(pathname) == <<"https://blob/">> \o pathname

InitConcurrent ==
    /\ invocations \in [InvocationIds -> {Started(x) : x \in InvocationInputs}]
    /\ clock = 0
    /\ blobStore = <<>>
    /\ IdleSanitizer
    /\ IdleFiller
    /\ IdleParser
    /\ IdleSchema
    /\ IdleHandler

\* invocation i goes on with the locals `next`
Step(i, next) ==
    /\ invocations' = [invocations EXCEPT ![i] = next]
    /\ UNCHANGED <<sanitizerVars, fillerVars, parserVars, schemaVars,
                   handlerVars>>

\* the catch of the handler of invocation i
Caught(i, message) ==
    [invocations[i] EXCEPT !.pc = "done",
                           !.response = catchError(invocations[i].which,
                                                   message)]

\* const sanitizedValues = sanitizeFieldValues(fieldValues, pdfFields)
SanitizeIn(i) ==
    /\ invocations[i].pc = "sanitize"
    /\ LET me == invocations[i]
           pdfFieldsOfMe == extractPDFFields(me.which, me.pdfBuffer).val
           cleaned == sanitizeFieldValues(me.fieldValues, pdfFieldsOfMe)
       IN  Step(i, IF cleaned.st = "throw"
                   THEN [Caught(i, <<cleaned.val>>) EXCEPT
                            !.sanitizedValues = cleaned]
                   ELSE [me EXCEPT !.sanitizedValues = cleaned,
                                   !.pc = "fill"])
    /\ UNCHANGED <<clock, blobStore>>

\* const filledPdfBuffer = await fillPDFFields(pdfBuffer, sanitizedValues)
FillIn(i) ==
    /\ invocations[i].pc = "fill"
    /\ LET me == invocations[i]
           done == fillPDFFields(me.which, me.pdfBuffer,
                                 me.sanitizedValues.val)
       IN  Step(i, IF done.st = "throw"
                   THEN [Caught(i, <<done.val>>) EXCEPT
                            !.filledPdfBuffer = done]
                   ELSE [me EXCEPT !.filledPdfBuffer = done, !.pc = "name"])
    /\ UNCHANGED <<clock, blobStore>>

\* const timestamp = ...; const filename = ...; and the call of put
NameIn(i) ==
    /\ invocations[i].pc = "name"
    /\ Step(i, [invocations[i] EXCEPT
                   !.filename = filenameOf(invocations[i].formType, clock),
                   !.pc = "put"])
    /\ UNCHANGED <<clock, blobStore>>

\* put resolves or rejects, and the handler returns its result
PutIn(i) ==
    /\ invocations[i].pc = "put"
    /\ \E mode \in PutModes :
          LET me == invocations[i]
              blob == putBlob(blobStore, me.filename,
                              me.filledPdfBuffer.val, mode)
          IN  IF blob.st = "throw"
              THEN /\ Step(i, Caught(i, blob.val))
                   /\ UNCHANGED blobStore
              ELSE /\ blobStore' = blob.val.store
                   /\ Step(i, [me EXCEPT
                         !.pc = "done",
                         !.response = Returned(
                             IF me.which = "route"
                             THEN Filled(200,
                                      <<"PDF form filled successfully!">>,
                                      urlOf(blob.val.pathname),
                                      me.sanitizedValues.val)
                             ELSE Filled(0,
                                      <<"Form filled successfully! The filled PDF is available at: ">>
                                        \o urlOf(blob.val.pathname),
                                      urlOf(blob.val.pathname),
                                      me.sanitizedValues.val))])
    /\ UNCHANGED clock

\* a millisecond passes
Tick ==
    /\ clock < MaxClock
    /\ clock' = clock + 1
    /\ UNCHANGED <<invocations, blobStore, sanitizerVars, fillerVars,
                   parserVars, schemaVars, handlerVars>>

NextConcurrent ==
    \/ \E i \in InvocationIds : SanitizeIn(i)
    \/ \E i \in InvocationIds : FillIn(i)
    \/ \E i \in InvocationIds : NameIn(i)
    \/ \E i \in InvocationIds : PutIn(i)
    \/ Tick

SpecConcurrent == InitConcurrent /\ [][NextConcurrent]_vars

----------------------------------------------------------------------------
(* Properties of two requests in flight *)

\* the document the storage serves under the URL of the result of i
ServedTo(i) ==
    LET url == invocations[i].response.val.filledPdfUrl.val
    IN  {blobStore[k].body : k \in {n \in 1..Len(blobStore) :
                                      urlOf(blobStore[n].pathname) = url}}

\* what invocation i returns and uploads when it runs alone: its fields map
\* and its filled document
AloneFields(i) ==
    sanitizeFieldValues(invocations[i].fieldValues,
        extractPDFFields(invocations[i].which, invocations[i].pdfBuffer).val)

AloneDocument(i) ==
    fillPDFFields(invocations[i].which, invocations[i].pdfBuffer,
                  AloneFields(i).val)

\* C24: in every interleaving of two fill requests each returns the fields
\* map and uploads the document it produces when run alone, the document
\* stays under the URL it was given, and the two uploads are made under
\* distinct storage names.
C24_NonInterference ==
    /\ \A i \in InvocationIds :
          invocations[i].pc = "done" =>
              /\ invocations[i].response.st = "ok"
              /\ invocations[i].response.val.success
                    = (AloneDocument(i).st = "ok")
              /\ invocations[i].response.val.success =>
                    /\ invocations[i].response.val.fields
                          = Some(AloneFields(i).val)
                    /\ ServedTo(i) = {AloneDocument(i).val}
    /\ (invocations[1].filename # <<>> /\ invocations[2].filename # <<>>)
          => invocations[1].filename # invocations[2].filename

====
